---- MODULE Spec2Model ----
(***************************************************************************)
(* Model of the shared-state engine of the collaborative drawing canvas:   *)
(* the operation ledger (backend/src/drawingState.js), exercised through   *)
(* the calls the room manager and the socket handlers make on it.          *)
(*                                                                         *)
(* JavaScript arrays are 0-based, TLA+ sequences are 1-based: the array    *)
(* element operations[i] is the sequence element operations[i + 1].        *)
(* currentIndex keeps its JavaScript value (-1 .. length-1).               *)
(***************************************************************************)
EXTENDS Integers, Sequences, FiniteSets, TLC

\* ------------------------------------------------------------------ bounds

\* Largest number of points the ledger stores at a time, over the pending
\* operations and the history together (every operation holds at least its
\* origin, so this also bounds the number of operations held).
MaxPoints == 3
\* Largest number of startOperation calls in a run that records the ids
\* returned.
MaxOpens == 4
\* Largest number of points the ledgers of all rooms store at a time, in the
\* runs that follow the emits or the clients.
MaxRoomPoints == 2
\* Largest number of strokes the ledgers of all rooms store at a time, in the
\* runs that follow the registry.
MaxRegistryStrokes == 1
\* Largest value of a room's colorIndex, in the runs that follow the colour
\* assignment and in the other runs of the server.
MaxJoins == 9
MaxRoomJoins == 2
\* Largest number of messages on their way to one client.
MaxInFlight == 2
\* Largest number of strokes the page draws, and of mousemove events during
\* one stroke, in the runs that follow the canvas.
MaxStrokes == 2
MaxStrokeMoves == 1

\* Socket ids of the connections that call the ledger.
Users == {"u1", "u2"}
\* Display name of each connection in the room's roster.
UserName(u) == IF u = "u1" THEN "ann" ELSE "bob"
\* Values Date.now() can return. The wall clock can return the same value
\* twice and can be set back, so every call reads any of them.
ClockValues == {1, 2}
\* Origins a draw-start payload can carry.
Origins == {<<0, 0>>}
\* Tools, colours and widths a draw-start payload can carry.
Tools == {"brush"}
\* Tools of the runs that follow the style of each stroke.
StyledTools == {"brush", "eraser"}
Colors == {"#000000"}
Widths == {"3"}
\* Point batches a draw-move payload can carry.
Batches == {<< <<1, 1>> >>, << <<2, 2>> >>}
\* The values data.points of a draw-move payload can take: no points list
\* (undefined), or one of the batches.
PointsInputs ==
  {[undef |-> TRUE]} \cup {[undef |-> FALSE, items |-> b] : b \in Batches}

\* ------------------------------------------------------------ JavaScript values

\* `op-${userId}-${Date.now()}`: the timestamp is decimal digits, so the text
\* after the last '-' is the clock value and the text before it is the user id:
\* two ids are equal exactly when both parts are equal.
OpId(userId, t) == <<"op", userId, t>>

\* Every id a client can name in a payload.
Ids == {OpId(u, t) : u \in Users, t \in ClockValues}

\* null / undefined as a call's result: the empty tuple; a value v: <<v>>.
Null == <<>>
Some(v) == <<v>>

\* A Map with no entries.
EmptyMap == [k \in {} |-> 0]
\* Map.prototype.set: adds the key or replaces its value.
MapSet(m, k, v) == [x \in (DOMAIN m) \cup {k} |-> IF x = k THEN v ELSE m[x]]
\* Map.prototype.delete.
MapDelete(m, k) == [x \in (DOMAIN m) \ {k} |-> m[x]]

\* Array.prototype.find(op => op.id === id) as the 1-based position of the
\* first match, 0 when there is none.
RECURSIVE FindFrom(_, _, _)
FindFrom(ops, id, i) ==
  IF i > Len(ops) THEN 0
  ELSE IF ops[i].id = id THEN i
  ELSE FindFrom(ops, id, i + 1)
FindById(ops, id) == FindFrom(ops, id, 1)

\* ------------------------------------------------------------- DrawingState

\* constructor()
NewDrawingState ==
  [operations |-> <<>>, currentIndex |-> -1, activeOperations |-> EmptyMap]

\* startOperation(data); t is the Date.now() reading the id is built from. The
\* timestamp field (a second Date.now() reading that no method reads) is left
\* out of the operation record.
startOperation(ds, data, t) ==
  LET operationId == OpId(data.userId, t)
      operation == [id |-> operationId,
                    userId |-> data.userId,
                    username |-> data.username,
                    type |-> data.tool,
                    color |-> data.color,
                    width |-> data.width,
                    points |-> <<data.xy>>,
                    status |-> "in-progress"]
  IN [ds |-> [ds EXCEPT !.activeOperations = MapSet(@, operationId, operation)],
      ret |-> Some([operationId |-> operationId, xy |-> data.xy,
                    color |-> data.color, width |-> data.width,
                    tool |-> data.tool]),
      threw |-> FALSE]

\* addPoints with the points spread, [...points], before the lookup: a payload
\* without a points list throws whatever the id.
addPointsSpreadFirst(ds, operationId, points) ==
  IF points.undef
  THEN [ds |-> ds, ret |-> Null, threw |-> TRUE]
  ELSE IF operationId \in DOMAIN ds.activeOperations
       THEN [ds |-> [ds EXCEPT !.activeOperations[operationId].points =
                                  @ \o points.items],
             ret |-> Null, threw |-> FALSE]
       ELSE LET i == FindById(ds.operations, operationId)
            IN IF i # 0 /\ ds.operations[i].status = "active"
               THEN [ds |-> [ds EXCEPT !.operations[i].points =
                                          @ \o points.items],
                     ret |-> Null, threw |-> FALSE]
               ELSE [ds |-> ds, ret |-> Null, threw |-> FALSE]

\* addPoints without the status test: points are appended to the entry found
\* in the array whatever its status is.
addPointsAnyStatus(ds, operationId, points) ==
  IF operationId \in DOMAIN ds.activeOperations
  THEN IF points.undef
       THEN [ds |-> ds, ret |-> Null, threw |-> TRUE]
       ELSE [ds |-> [ds EXCEPT !.activeOperations[operationId].points =
                                 @ \o points.items],
             ret |-> Null, threw |-> FALSE]
  ELSE LET i == FindFrom(ds.operations, operationId, 1)
       IN IF i # 0
          THEN IF points.undef
               THEN [ds |-> ds, ret |-> Null, threw |-> TRUE]
               ELSE [ds |-> [ds EXCEPT !.operations[i].points =
                                         @ \o points.items],
                     ret |-> Null, threw |-> FALSE]
          ELSE [ds |-> ds, ret |-> Null, threw |-> FALSE]

\* addPoints with unshift in place of push: the batch goes in front of the
\* points the operation holds.
addPointsUnshift(ds, operationId, points) ==
  IF operationId \in DOMAIN ds.activeOperations
  THEN IF points.undef
       THEN [ds |-> ds, ret |-> Null, threw |-> TRUE]
       ELSE [ds |-> [ds EXCEPT !.activeOperations[operationId].points =
                                 points.items \o @],
             ret |-> Null, threw |-> FALSE]
  ELSE LET i == FindFrom(ds.operations, operationId, 1)
       IN IF i # 0 /\ ds.operations[i].status = "active"
          THEN IF points.undef
               THEN [ds |-> ds, ret |-> Null, threw |-> TRUE]
               ELSE [ds |-> [ds EXCEPT !.operations[i].points =
                                         points.items \o @],
                     ret |-> Null, threw |-> FALSE]
          ELSE [ds |-> ds, ret |-> Null, threw |-> FALSE]

\* addPoints with an assignment in place of push: the batch replaces the
\* points the operation holds.
addPointsAssign(ds, operationId, points) ==
  IF operationId \in DOMAIN ds.activeOperations
  THEN IF points.undef
       THEN [ds |-> ds, ret |-> Null, threw |-> TRUE]
       ELSE [ds |-> [ds EXCEPT !.activeOperations[operationId].points =
                                 points.items],
             ret |-> Null, threw |-> FALSE]
  ELSE LET i == FindById(ds.operations, operationId)
       IN IF i # 0 /\ ds.operations[i].status = "active"
          THEN IF points.undef
               THEN [ds |-> ds, ret |-> Null, threw |-> TRUE]
               ELSE [ds |-> [ds EXCEPT !.operations[i].points = points.items],
                     ret |-> Null, threw |-> FALSE]
          ELSE [ds |-> ds, ret |-> Null, threw |-> FALSE]

\* addPoints(operationId, points). points is [undef |-> TRUE] for a payload
\* without a points list, else [undef |-> FALSE, items |-> the list];
\* push(...undefined) throws a TypeError before anything is pushed.
addPoints(ds, operationId, points) ==
  IF operationId \in DOMAIN ds.activeOperations
  THEN IF points.undef
       THEN [ds |-> ds, ret |-> Null, threw |-> TRUE]
       ELSE [ds |-> [ds EXCEPT !.activeOperations[operationId].points =
                                  @ \o points.items],
             ret |-> Null, threw |-> FALSE]
  ELSE LET i == FindById(ds.operations, operationId)
       IN IF i # 0 /\ ds.operations[i].status = "active"
          THEN IF points.undef
               THEN [ds |-> ds, ret |-> Null, threw |-> TRUE]
               ELSE [ds |-> [ds EXCEPT !.operations[i].points =
                                          @ \o points.items],
                     ret |-> Null, threw |-> FALSE]
          ELSE [ds |-> ds, ret |-> Null, threw |-> FALSE]

\* endOperation without the slice that drops the undone tail.
endOperationKeepTail(ds, operationId) ==
  IF operationId \notin DOMAIN ds.activeOperations
  THEN [ds |-> ds, ret |-> Null, threw |-> FALSE]
  ELSE LET operation == [ds.activeOperations[operationId]
                           EXCEPT !.status = "active"]
       IN [ds |-> [operations |-> Append(ds.operations, operation),
                   currentIndex |-> ds.currentIndex + 1,
                   activeOperations |->
                     MapDelete(ds.activeOperations, operationId)],
           ret |-> Null, threw |-> FALSE]

\* endOperation without the delete from the pending map.
endOperationNoDelete(ds, operationId) ==
  IF operationId \notin DOMAIN ds.activeOperations
  THEN [ds |-> ds, ret |-> Null, threw |-> FALSE]
  ELSE LET operation == [ds.activeOperations[operationId]
                           EXCEPT !.status = "active"]
           kept == SubSeq(ds.operations, 1, ds.currentIndex + 1)
       IN [ds |-> [operations |-> Append(kept, operation),
                   currentIndex |-> ds.currentIndex + 1,
                   activeOperations |-> ds.activeOperations],
           ret |-> Null, threw |-> FALSE]

\* endOperation(operationId)
endOperation(ds, operationId) ==
  IF operationId \notin DOMAIN ds.activeOperations
  THEN [ds |-> ds, ret |-> Null, threw |-> FALSE]
  ELSE LET operation == [ds.activeOperations[operationId]
                           EXCEPT !.status = "active"]
           kept == SubSeq(ds.operations, 1, ds.currentIndex + 1)
       IN [ds |-> [operations |-> Append(kept, operation),
                   currentIndex |-> ds.currentIndex + 1,
                   activeOperations |->
                     MapDelete(ds.activeOperations, operationId)],
           ret |-> Null, threw |-> FALSE]

\* The while loop of undo(): i is the JavaScript value of currentIndex.
RECURSIVE undoScan(_, _)
undoScan(ds, i) ==
  IF i < 0
  THEN [ds |-> [ds EXCEPT !.currentIndex = i], ret |-> Null, threw |-> FALSE]
  ELSE IF ds.operations[i + 1].status = "active"
       THEN [ds |-> [ds EXCEPT !.operations[i + 1].status = "undone",
                               !.currentIndex = i - 1],
             ret |-> Some([ds.operations[i + 1] EXCEPT !.status = "undone"]),
             threw |-> FALSE]
       ELSE undoScan(ds, i - 1)

\* undo without the status change: the index moves, the entry stays active.
undoNoMark(ds) ==
  IF ds.currentIndex < 0
  THEN [ds |-> ds, ret |-> Null, threw |-> FALSE]
  ELSE [ds |-> [ds EXCEPT !.currentIndex = @ - 1],
        ret |-> Some(ds.operations[ds.currentIndex + 1]),
        threw |-> FALSE]

\* undo without the currentIndex < 0 guard: the index is decremented anyway.
undoNoGuard(ds) ==
  IF ds.currentIndex < 0
  THEN [ds |-> [ds EXCEPT !.currentIndex = @ - 1], ret |-> Null,
        threw |-> FALSE]
  ELSE undoScan(ds, ds.currentIndex)

\* undo that takes the entry out of the array instead of marking it.
undoSplice(ds) ==
  IF ds.currentIndex < 0
  THEN [ds |-> ds, ret |-> Null, threw |-> FALSE]
  ELSE LET i == ds.currentIndex + 1
       IN [ds |-> [ds EXCEPT !.operations =
                               SubSeq(@, 1, i - 1) \o SubSeq(@, i + 1, Len(@)),
                             !.currentIndex = @ - 1],
           ret |-> Some([ds.operations[i] EXCEPT !.status = "undone"]),
           threw |-> FALSE]

\* undo()
undo(ds) ==
  IF ds.currentIndex < 0
  THEN [ds |-> ds, ret |-> Null, threw |-> FALSE]
  ELSE undoScan(ds, ds.currentIndex)

\* The for loop of redo(): i is the JavaScript loop index.
RECURSIVE redoScan(_, _)
redoScan(ds, i) ==
  IF i >= Len(ds.operations)
  THEN [ds |-> ds, ret |-> Null, threw |-> FALSE]
  ELSE IF ds.operations[i + 1].status = "undone"
       THEN [ds |-> [ds EXCEPT !.operations[i + 1].status = "active",
                               !.currentIndex = i],
             ret |-> Some([ds.operations[i + 1] EXCEPT !.status = "active"]),
             threw |-> FALSE]
       ELSE redoScan(ds, i + 1)

\* redo that re-activates the newest undone entry instead of the next one.
redoLast(ds) ==
  IF ds.currentIndex >= Len(ds.operations) - 1
  THEN [ds |-> ds, ret |-> Null, threw |-> FALSE]
  ELSE LET n == Len(ds.operations)
       IN [ds |-> [ds EXCEPT !.operations[n].status = "active",
                             !.currentIndex = n - 1],
           ret |-> Some([ds.operations[n] EXCEPT !.status = "active"]),
           threw |-> FALSE]

\* redo that puts the entry back to 'in-progress' instead of 'active'.
redoReopen(ds) ==
  IF ds.currentIndex >= Len(ds.operations) - 1
  THEN [ds |-> ds, ret |-> Null, threw |-> FALSE]
  ELSE LET r == redoScan(ds, ds.currentIndex + 1)
       IN IF r.ret = Null THEN r
          ELSE [r EXCEPT !.ds.operations[r.ds.currentIndex + 1].status =
                           "in-progress"]

\* redo()
redo(ds) ==
  IF ds.currentIndex >= Len(ds.operations) - 1
  THEN [ds |-> ds, ret |-> Null, threw |-> FALSE]
  ELSE redoScan(ds, ds.currentIndex + 1)

\* The projection getActiveOperations() applies to each entry.
Project(op) ==
  [id |-> op.id, userId |-> op.userId, username |-> op.username,
   type |-> op.type, color |-> op.color, width |-> op.width,
   points |-> op.points]

\* operations.filter(op => op.status === 'active')
RECURSIVE FilterActive(_)
FilterActive(ops) ==
  IF ops = <<>> THEN <<>>
  ELSE IF Head(ops).status = "active"
       THEN <<Head(ops)>> \o FilterActive(Tail(ops))
       ELSE FilterActive(Tail(ops))

\* getActiveOperations()
getActiveOperations(ds) ==
  LET act == FilterActive(ds.operations)
  IN [i \in 1..Len(act) |-> Project(act[i])]

\* clear()
clear(ds) ==
  [ds |-> NewDrawingState, ret |-> Null, threw |-> FALSE]

\* ---------------------------------------------------------------- handlers

\* An undo handler that lets a socket undo only its own operation.
onUndoOwnerOnly(d, socketId) ==
  IF d.currentIndex >= 0 /\ d.operations[d.currentIndex + 1].userId # socketId
  THEN [ds |-> d, ret |-> Null, threw |-> FALSE]
  ELSE undo(d)

\* socket.on('undo') of a joined socket: RoomManager.undo on its room, which
\* exists while the socket is joined. The socket id is not passed on.
onUndo(d, socketId) == undo(d)

\* socket.on('redo') of a joined socket: RoomManager.redo on its room.
onRedo(d, socketId) == redo(d)

\* -------------------------------------------------------------- RoomManager

\* this.userColors of the RoomManager.
userColors ==
  <<"#3b82f6", "#ef4444", "#10b981", "#f59e0b",
    "#8b5cf6", "#ec4899", "#14b8a6", "#f97316">>

\* rooms is the Map roomId -> room. A room's users Map is kept as the sequence
\* of its values in insertion order, which is the order Map iteration and so
\* Array.from(room.users.values()) give. The joinedAt field of a user, a clock
\* reading no code reads, is left out.
NewRoom ==
  [drawingState |-> NewDrawingState, users |-> <<>>, colorIndex |-> 0]

\* Map.prototype.has / set / delete on a users Map.
RosterIds(users) == {users[i].id : i \in 1..Len(users)}
RosterSet(users, user) ==
  LET i == FindById(users, user.id)
  IN IF i = 0 THEN Append(users, user) ELSE [users EXCEPT ![i] = user]
RosterDelete(users, userId) ==
  LET Keep(x) == x.id # userId IN SelectSeq(users, Keep)

\* getRoom: the rooms Map after the call; the room returned is its value at
\* roomId.
getRoom(rs, roomId) ==
  IF roomId \in DOMAIN rs THEN rs ELSE MapSet(rs, roomId, NewRoom)

\* addUser with the colour taken by the size of the roster instead of the
\* room's colour cursor.
addUserByRosterSize(rs, roomId, userId, username) ==
  LET rs1 == IF roomId \in DOMAIN rs THEN rs ELSE MapSet(rs, roomId, NewRoom)
      room == rs1[roomId]
      color == userColors[(Len(room.users) % Len(userColors)) + 1]
      user == [id |-> userId, username |-> username, color |-> color]
  IN [rooms |-> [rs1 EXCEPT ![roomId] =
                   [room EXCEPT !.colorIndex = @ + 1,
                                !.users = RosterSet(@, user)]],
      ret |-> user]

addUser(rs, roomId, userId, username) ==
  LET rs1 == getRoom(rs, roomId)
      room == rs1[roomId]
      color == userColors[(room.colorIndex % Len(userColors)) + 1]
      user == [id |-> userId, username |-> username, color |-> color]
  IN [rooms |-> [rs1 EXCEPT ![roomId] =
                   [room EXCEPT !.colorIndex = @ + 1,
                                !.users = RosterSet(@, user)]],
      ret |-> user]

\* removeUser without the clean-up of empty rooms.
removeUserKeepRoom(rs, roomId, userId) ==
  IF roomId \notin DOMAIN rs THEN rs
  ELSE [rs EXCEPT ![roomId].users = RosterDelete(@, userId)]

\* removeUser that also takes the user's operations out of the room's array.
removeUserDropStrokes(rs, roomId, userId) ==
  IF roomId \notin DOMAIN rs THEN rs
  ELSE LET users == RosterDelete(rs[roomId].users, userId)
           Others(op) == op.userId # userId
           ops == SelectSeq(rs[roomId].drawingState.operations, Others)
       IN IF Len(users) = 0
          THEN MapDelete(rs, roomId)
          ELSE [rs EXCEPT ![roomId].users = users,
                          ![roomId].drawingState.operations = ops,
                          ![roomId].drawingState.currentIndex = Len(ops) - 1]

removeUser(rs, roomId, userId) ==
  IF roomId \notin DOMAIN rs THEN rs
  ELSE LET users == RosterDelete(rs[roomId].users, userId)
       IN IF Len(users) = 0
          THEN MapDelete(rs, roomId)
          ELSE [rs EXCEPT ![roomId].users = users]

getRoomState(rs, roomId) ==
  LET rs1 == getRoom(rs, roomId)
  IN [rooms |-> rs1,
      ret |-> [operations |-> getActiveOperations(rs1[roomId].drawingState),
               users |-> rs1[roomId].users]]

\* RoomManager.startOperation(roomId, userId, data), Date.now() returning t.
\* The argument of DrawingState.startOperation is built first: user.username
\* throws when the roster has no such user, data.x when there is no payload.
roomStartOperation(rs, roomId, userId, data, t) ==
  LET rs1 == getRoom(rs, roomId)
      room == rs1[roomId]
      i == FindById(room.users, userId)
  IN IF i = 0 \/ data.nodata
     THEN [rooms |-> rs1, ret |-> Null, threw |-> TRUE]
     ELSE LET r == startOperation(room.drawingState,
                     [userId |-> userId, username |-> room.users[i].username,
                      xy |-> data.xy, color |-> data.color,
                      width |-> data.width, tool |-> data.tool], t)
          IN [rooms |-> [rs1 EXCEPT ![roomId].drawingState = r.ds],
              ret |-> r.ret, threw |-> r.threw]

\* RoomManager.addPoints / endOperation / undo / redo / clearCanvas.
roomCall(rs, roomId, r) ==
  [rooms |-> [rs EXCEPT ![roomId].drawingState = r.ds],
   ret |-> r.ret, threw |-> r.threw]
roomMissing(rs) == [rooms |-> rs, ret |-> Null, threw |-> FALSE]
roomAddPoints(rs, roomId, operationId, points) ==
  IF roomId \notin DOMAIN rs THEN roomMissing(rs)
  ELSE roomCall(rs, roomId, addPoints(rs[roomId].drawingState, operationId, points))
roomEndOperation(rs, roomId, operationId) ==
  IF roomId \notin DOMAIN rs THEN roomMissing(rs)
  ELSE roomCall(rs, roomId, endOperation(rs[roomId].drawingState, operationId))
roomUndo(rs, roomId) ==
  IF roomId \notin DOMAIN rs THEN roomMissing(rs)
  ELSE roomCall(rs, roomId, undo(rs[roomId].drawingState))
roomRedo(rs, roomId) ==
  IF roomId \notin DOMAIN rs THEN roomMissing(rs)
  ELSE roomCall(rs, roomId, redo(rs[roomId].drawingState))
clearCanvas(rs, roomId) ==
  IF roomId \notin DOMAIN rs THEN roomMissing(rs)
  ELSE roomCall(rs, roomId, clear(rs[roomId].drawingState))

\* ------------------------------------------------------------ socket handlers

\* The server's state: the RoomManager's rooms Map; for each connection
\* whether it is open and the currentRoom and currentUser of its closure; and
\* the Socket.IO rooms each socket has joined.
NewServer ==
  [rooms |-> EmptyMap,
   conn |-> [s \in Users |->
               [open |-> TRUE, currentRoom |-> Null, currentUser |-> Null]],
   joined |-> [s \in Users |-> {}]]

\* The sockets whose client is modelled.
Watched == {"u2"}

\* `if (currentRoom)`: null and the empty string are falsy.
Truthy(v) == v # Null /\ v[1] # ""

\* `User${socket.id.slice(0, 4)}`
DefaultName(s) == IF s = "u1" THEN "Useru1" ELSE "Useru2"

\* The sockets an emit to a Socket.IO room reaches.
Members(jn, room) == {x \in DOMAIN jn : room \in jn[x]}

\* One emit: the event, the sockets it is sent to, the payload.
Msg(event, to, payload) == [event |-> event, to |-> to, payload |-> payload]

\* What a handler leaves behind: the server's state, the emits it made in
\* order, what the ledger call returned, whether an exception reached the
\* catch block, and the rooms Map as it was after the handler's removeUser.
Done(st, sent, ret, threw) ==
  [st |-> st, sent |-> sent, ret |-> ret, threw |-> threw, mid |-> st.rooms]
Ignored(st) == Done(st, <<>>, Null, FALSE)
Caught(st) == Done(st, <<>>, Null, TRUE)

\* join-room with the room's state read before addUser is called.
HandleJoinRoomStaleState(st, s, data) ==
  IF data.nodata
  THEN Done(st, <<Msg("error", {s}, [message |-> "Failed to join room"])>>,
            Null, TRUE)
  ELSE LET room == IF data.room = Null THEN "default" ELSE data.room[1]
           cur == st.conn[s].currentRoom
           rs1 == IF Truthy(cur) THEN removeUser(st.rooms, cur[1], s)
                  ELSE st.rooms
           jn1 == [st.joined EXCEPT
                     ![s] = (IF Truthy(cur) THEN @ \ {cur[1]} ELSE @)
                              \cup {room}]
           name == IF data.username = Null \/ data.username[1] = ""
                   THEN DefaultName(s) ELSE data.username[1]
           g == getRoomState(rs1, room)
           a == addUser(g.rooms, room, s, name)
       IN [st |-> [rooms |-> a.rooms,
                   conn |-> [st.conn EXCEPT
                               ![s] = [open |-> TRUE,
                                       currentRoom |-> Some(room),
                                       currentUser |-> Some(a.ret)]],
                   joined |-> jn1],
           sent |-> <<Msg("room-state", {s},
                          [user |-> a.ret, operations |-> g.ret.operations,
                           users |-> g.ret.users]),
                      Msg("user-joined", Members(jn1, room) \ {s}, a.ret)>>,
           ret |-> Null, threw |-> FALSE, mid |-> rs1]

\* socket.on('join-room')
HandleJoinRoom(st, s, data) ==
  IF data.nodata
  THEN Done(st, <<Msg("error", {s}, [message |-> "Failed to join room"])>>,
            Null, TRUE)
  ELSE LET room == IF data.room = Null THEN "default" ELSE data.room[1]
           cur == st.conn[s].currentRoom
           rs1 == IF Truthy(cur) THEN removeUser(st.rooms, cur[1], s)
                  ELSE st.rooms
           jn1 == [st.joined EXCEPT
                     ![s] = (IF Truthy(cur) THEN @ \ {cur[1]} ELSE @)
                              \cup {room}]
           name == IF data.username = Null \/ data.username[1] = ""
                   THEN DefaultName(s) ELSE data.username[1]
           a == addUser(rs1, room, s, name)
           g == getRoomState(a.rooms, room)
       IN [st |-> [rooms |-> g.rooms,
                   conn |-> [st.conn EXCEPT
                               ![s] = [open |-> TRUE,
                                       currentRoom |-> Some(room),
                                       currentUser |-> Some(a.ret)]],
                   joined |-> jn1],
           sent |-> <<Msg("room-state", {s},
                          [user |-> a.ret, operations |-> g.ret.operations,
                           users |-> g.ret.users]),
                      Msg("user-joined", Members(jn1, room) \ {s}, a.ret)>>,
           ret |-> Null, threw |-> FALSE, mid |-> rs1]

\* draw-start without the `if (!currentRoom) return` guard: a socket that has
\* not joined calls startOperation with the room id null.
HandleDrawStartUnguarded(st, s, data, t) ==
  LET cur == st.conn[s].currentRoom
      room == IF cur = Null THEN "null" ELSE cur[1]
      r == roomStartOperation(st.rooms, room, s, data, t)
      st1 == [st EXCEPT !.rooms = r.rooms]
  IN IF r.threw THEN Caught(st1)
     ELSE Done(st1,
            <<Msg("operation-started", {s},
                  [operationId |-> r.ret[1].operationId]),
              Msg("remote-draw-start", Members(st.joined, room) \ {s},
                  [userId |-> s,
                   username |-> st.conn[s].currentUser[1].username,
                   color |-> data.color, width |-> data.width,
                   tool |-> data.tool,
                   operationId |-> r.ret[1].operationId,
                   xy |-> data.xy])>>,
            r.ret, FALSE)

\* socket.on('draw-start'), Date.now() returning t
HandleDrawStart(st, s, data, t) ==
  LET cur == st.conn[s].currentRoom
  IN IF ~Truthy(cur) THEN Ignored(st)
     ELSE LET r == roomStartOperation(st.rooms, cur[1], s, data, t)
              st1 == [st EXCEPT !.rooms = r.rooms]
          IN IF r.threw THEN Caught(st1)
             ELSE Done(st1,
                    <<Msg("operation-started", {s},
                          [operationId |-> r.ret[1].operationId]),
                      Msg("remote-draw-start", Members(st.joined, cur[1]) \ {s},
                          [userId |-> s,
                           username |-> st.conn[s].currentUser[1].username,
                           color |-> data.color, width |-> data.width,
                           tool |-> data.tool,
                           operationId |-> r.ret[1].operationId,
                           xy |-> data.xy])>>,
                    r.ret, FALSE)

\* draw-move forwarded with io.to in place of socket.to: the sender gets its
\* own points back.
HandleDrawMoveEcho(st, s, data) ==
  LET cur == st.conn[s].currentRoom
  IN IF ~Truthy(cur) THEN Ignored(st)
     ELSE IF data.nodata THEN Caught(st)
     ELSE LET r == roomAddPoints(st.rooms, cur[1], data.operationId, data.points)
          IN IF r.threw THEN Caught(st)
             ELSE Done([st EXCEPT !.rooms = r.rooms],
                    <<Msg("remote-draw-move", Members(st.joined, cur[1]),
                          [userId |-> s, operationId |-> data.operationId,
                           points |-> data.points])>>,
                    Null, FALSE)

\* socket.on('draw-move')
HandleDrawMove(st, s, data) ==
  LET cur == st.conn[s].currentRoom
  IN IF ~Truthy(cur) THEN Ignored(st)
     ELSE IF data.nodata THEN Caught(st)
     ELSE LET r == roomAddPoints(st.rooms, cur[1], data.operationId, data.points)
          IN IF r.threw THEN Caught(st)
             ELSE Done([st EXCEPT !.rooms = r.rooms],
                    <<Msg("remote-draw-move", Members(st.joined, cur[1]) \ {s},
                          [userId |-> s, operationId |-> data.operationId,
                           points |-> data.points])>>,
                    Null, FALSE)

\* draw-end with the operations read before endOperation is called.
HandleDrawEndStale(st, s, data) ==
  LET cur == st.conn[s].currentRoom
  IN IF ~Truthy(cur) THEN Ignored(st)
     ELSE IF data.nodata THEN Caught(st)
     ELSE LET g == getRoomState(st.rooms, cur[1])
              r == roomEndOperation(g.rooms, cur[1], data.operationId)
          IN Done([st EXCEPT !.rooms = r.rooms],
               <<Msg("remote-draw-end", Members(st.joined, cur[1]) \ {s},
                     [userId |-> s, operationId |-> data.operationId]),
                 Msg("operations-updated", Members(st.joined, cur[1]),
                     [operations |-> g.ret.operations])>>,
               Null, FALSE)

\* socket.on('draw-end')
HandleDrawEnd(st, s, data) ==
  LET cur == st.conn[s].currentRoom
  IN IF ~Truthy(cur) THEN Ignored(st)
     ELSE IF data.nodata THEN Caught(st)
     ELSE LET r == roomEndOperation(st.rooms, cur[1], data.operationId)
              g == getRoomState(r.rooms, cur[1])
          IN Done([st EXCEPT !.rooms = g.rooms],
               <<Msg("remote-draw-end", Members(st.joined, cur[1]) \ {s},
                     [userId |-> s, operationId |-> data.operationId]),
                 Msg("operations-updated", Members(st.joined, cur[1]),
                     [operations |-> g.ret.operations])>>,
               Null, FALSE)

\* What the undo and the redo handler do with the result r of the manager's
\* call.
Resync(st, cur, r) ==
  IF r.ret = Null THEN Done([st EXCEPT !.rooms = r.rooms], <<>>, Null, FALSE)
  ELSE LET g == getRoomState(r.rooms, cur[1])
       IN Done([st EXCEPT !.rooms = g.rooms],
            <<Msg("operations-updated", Members(st.joined, cur[1]),
                  [operations |-> g.ret.operations])>>,
            r.ret, FALSE)

\* undo that sends the operations whatever the manager's call returned.
HandleUndoAlways(st, s) ==
  LET cur == st.conn[s].currentRoom
  IN IF ~Truthy(cur) THEN Ignored(st)
     ELSE LET r == roomUndo(st.rooms, cur[1])
              g == getRoomState(r.rooms, cur[1])
          IN Done([st EXCEPT !.rooms = g.rooms],
               <<Msg("operations-updated", Members(st.joined, cur[1]),
                     [operations |-> g.ret.operations])>>,
               r.ret, FALSE)

\* socket.on('undo')
HandleUndo(st, s) ==
  LET cur == st.conn[s].currentRoom
  IN IF ~Truthy(cur) THEN Ignored(st)
     ELSE Resync(st, cur, roomUndo(st.rooms, cur[1]))

\* socket.on('redo')
HandleRedo(st, s) ==
  LET cur == st.conn[s].currentRoom
  IN IF ~Truthy(cur) THEN Ignored(st)
     ELSE Resync(st, cur, roomRedo(st.rooms, cur[1]))

\* socket.on('clear-canvas')
HandleClearCanvas(st, s) ==
  LET cur == st.conn[s].currentRoom
  IN IF ~Truthy(cur) THEN Ignored(st)
     ELSE LET r == clearCanvas(st.rooms, cur[1])
          IN Done([st EXCEPT !.rooms = r.rooms],
               <<Msg("canvas-cleared", Members(st.joined, cur[1]),
                     [userId |-> s]),
                 Msg("operations-updated", Members(st.joined, cur[1]),
                     [operations |-> <<>>])>>,
               Null, FALSE)

\* cursor-move that forwards the colour of the payload.
HandleCursorMovePayloadColor(st, s, data) ==
  LET cur == st.conn[s].currentRoom
      usr == st.conn[s].currentUser
  IN IF ~Truthy(cur) \/ usr = Null THEN Ignored(st)
     ELSE IF data.nodata THEN Caught(st)
     ELSE Done(st,
            <<Msg("remote-cursor", Members(st.joined, cur[1]) \ {s},
                  [userId |-> s, username |-> usr[1].username,
                   color |-> data.color, xy |-> data.xy])>>,
            Null, FALSE)

\* socket.on('cursor-move')
HandleCursorMove(st, s, data) ==
  LET cur == st.conn[s].currentRoom
      usr == st.conn[s].currentUser
  IN IF ~Truthy(cur) \/ usr = Null THEN Ignored(st)
     ELSE IF data.nodata THEN Caught(st)
     ELSE Done(st,
            <<Msg("remote-cursor", Members(st.joined, cur[1]) \ {s},
                  [userId |-> s, username |-> usr[1].username,
                   color |-> usr[1].color, xy |-> data.xy])>>,
            Null, FALSE)

\* socket.on('disconnect'): Socket.IO has taken the socket out of every room
\* before the handler runs, and no handler of the socket runs afterwards.
HandleDisconnect(st, s) ==
  LET cur == st.conn[s].currentRoom
      usr == st.conn[s].currentUser
      gone == [st EXCEPT !.conn[s].open = FALSE, !.joined[s] = {}]
  IN IF Truthy(cur) /\ usr # Null
     THEN Done([gone EXCEPT !.rooms = removeUser(st.rooms, cur[1], s)],
            <<Msg("user-left", Members(gone.joined, cur[1]) \ {s},
                  [userId |-> s, username |-> usr[1].username])>>,
            Null, FALSE)
     ELSE Ignored(gone)

\* ------------------------------------------------------------------- client

\* WebSocketManager of one page: its operations list and remoteOperations Map.
NewClient == [operations |-> <<>>, remoteOperations |-> EmptyMap]

\* The socket.on handlers of the WebSocketManager that touch them. A handler
\* that throws (push(...undefined)) leaves both as they were.
ClientOn(c, m) ==
  LET d == m.payload
  IN CASE m.event = "room-state" -> [c EXCEPT !.operations = d.operations]
       [] m.event = "remote-draw-start" ->
            [c EXCEPT !.remoteOperations =
               MapSet(@, d.operationId,
                      [id |-> d.operationId, userId |-> d.userId,
                       username |-> d.username, type |-> d.tool,
                       color |-> d.color, width |-> d.width,
                       points |-> <<d.xy>>])]
       [] m.event = "remote-draw-move" ->
            IF d.operationId \in DOMAIN c.remoteOperations /\ ~d.points.undef
            THEN [c EXCEPT !.remoteOperations[d.operationId].points =
                             @ \o d.points.items]
            ELSE c
       [] m.event = "remote-draw-end" ->
            IF d.operationId \in DOMAIN c.remoteOperations
            THEN [operations |->
                    Append(c.operations, c.remoteOperations[d.operationId]),
                  remoteOperations |->
                    MapDelete(c.remoteOperations, d.operationId)]
            ELSE c
       [] m.event = "operations-updated" ->
            [c EXCEPT !.operations = d.operations]
       [] m.event = "canvas-cleared" -> NewClient
       [] OTHER -> c

\* ------------------------------------------------------------ page and form

\* Text typed into the welcome form is a sequence of characters; Str is the
\* string they make.
RECURSIVE Str(_)
Str(t) == IF t = <<>> THEN "" ELSE Head(t) \o Str(Tail(t))

\* String.prototype.trim
RECURSIVE TrimStart(_)
TrimStart(t) ==
  IF t # <<>> /\ Head(t) = " " THEN TrimStart(Tail(t)) ELSE t
RECURSIVE TrimEnd(_)
TrimEnd(t) ==
  IF t # <<>> /\ t[Len(t)] = " " THEN TrimEnd(SubSeq(t, 1, Len(t) - 1)) ELSE t
Trim(t) == TrimEnd(TrimStart(t))

\* substring(0, n)
Substring0(t, n) == SubSeq(t, 1, IF Len(t) < n THEN Len(t) ELSE n)

\* replace(/[^a-zA-Z0-9-_]/g, '')
RoomChars ==
  {"a", "b", "c", "d", "e", "f", "g", "h", "i", "j", "k", "l", "m", "n", "o",
   "p", "q", "r", "s", "t", "u", "v", "w", "x", "y", "z",
   "A", "B", "C", "D", "E", "F", "G", "H", "I", "J", "K", "L", "M", "N", "O",
   "P", "Q", "R", "S", "T", "U", "V", "W", "X", "Y", "Z",
   "0", "1", "2", "3", "4", "5", "6", "7", "8", "9", "-", "_"}
StripRoom(t) == LET Keep(c) == c \in RoomChars IN SelectSeq(t, Keep)

MaxUsernameLength == 20
MaxRoomLength == 30

\* handleJoin of the welcome form, with the texts of the two inputs: ok is
\* whether onJoin is called, username and room what it is called with.
handleJoin(nameInput, roomInput) ==
  LET username == Trim(nameInput)
      room == IF Trim(roomInput) = <<>>
              THEN <<"d", "e", "f", "a", "u", "l", "t">>
              ELSE Trim(roomInput)
  IN [ok |-> username # <<>>,
      username |-> Str(Substring0(username, MaxUsernameLength)),
      room |-> Str(StripRoom(Substring0(room, MaxRoomLength)))]

\* The WebSocketManager of one page with its transport: the number of
\* connections the transport has made so far, isConnected, currentRoom and
\* currentUsername; and whether the welcome form is shown.
NewPage ==
  [n |-> 0, isConnected |-> FALSE, currentRoom |-> Null,
   currentUsername |-> Null, modal |-> TRUE]

\* WebSocketManager.joinRoom, called with both arguments: the manager after
\* the call and the payload of the join-room it emits.
joinRoom(pg, username, room) ==
  [page |-> [pg EXCEPT !.currentUsername = Some(username),
                       !.currentRoom = Some(room)],
   emit |-> [nodata |-> FALSE, username |-> Some(username),
             room |-> Some(room)]]

\* The 'connect' handler of the WebSocketManager; emit is [nodata |-> TRUE]
\* when nothing is emitted.
onConnect(pg) ==
  LET up == [pg EXCEPT !.isConnected = TRUE]
  IN IF Truthy(pg.currentRoom) /\ Truthy(pg.currentUsername)
     THEN joinRoom(up, pg.currentUsername[1], pg.currentRoom[1])
     ELSE [page |-> up, emit |-> [nodata |-> TRUE]]

\* ------------------------------------------------------------------- canvas

\* The tools startDrawing, draw and stopDrawing treat as shapes.
ShapeTools == {"line", "rect", "circle"}

\* The tools a run of the canvas draws with: one freehand tool and one shape.
CanvasTools == {"brush", "line"}

\* The socket of the page whose canvas is followed.
CanvasSocket == "u1"

\* CanvasManager.constructor. timers are the checkForId intervals that were set
\* and not cleared, each named by the number of the stroke whose stopDrawing
\* set it; strokes counts the calls of startDrawing. The fields that only the
\* local rendering reads are left out.
NewCanvas ==
  [isDrawing |-> FALSE, currentTool |-> "brush", currentColor |-> "#3b82f6",
   currentWidth |-> "5", currentOperation |-> Null, pointBuffer |-> <<>>,
   pendingPoints |-> <<>>, shapeStart |-> Null, shapeLast |-> Null,
   timers |-> {}, strokes |-> 0]

\* What the callbacks onDrawStart, onDrawMove and onDrawEnd hand to
\* sendDrawStart, sendDrawMove and sendDrawEnd. `of` is not part of the
\* payload: it is the number of the local stroke the call was made for.
StartMsg(op, xy) ==
  [event |-> "draw-start", xy |-> xy, color |-> op.color, width |-> op.width,
   tool |-> op.tool, of |-> op.stroke]
MoveMsg(operationId, points) ==
  [event |-> "draw-move", operationId |-> operationId, points |-> points]
EndMsg(operationId, n) ==
  [event |-> "draw-end", operationId |-> operationId, of |-> n]

\* startDrawing(e), the pointer being at xy
startDrawing(c, xy) ==
  LET op == [id |-> Null, tool |-> c.currentTool, color |-> c.currentColor,
             width |-> c.currentWidth, points |-> <<xy>>,
             stroke |-> c.strokes + 1]
      c1 == [c EXCEPT !.isDrawing = TRUE, !.currentOperation = Some(op),
                      !.pendingPoints = <<>>, !.strokes = @ + 1]
  IN IF c.currentTool \in ShapeTools
     THEN [canvas |-> [c1 EXCEPT !.shapeStart = Some(xy)],
           out |-> <<StartMsg(op, xy)>>]
     ELSE [canvas |-> [c1 EXCEPT !.pointBuffer = <<>>],
           out |-> <<StartMsg(op, xy)>>]

\* setOperationId(operationId)
setOperationId(c, operationId) ==
  IF c.currentOperation = Null
  THEN [canvas |-> c, out |-> <<>>]
  ELSE LET c1 == [c EXCEPT !.currentOperation[1].id = Some(operationId)]
       IN IF c.pendingPoints # <<>>
          THEN [canvas |-> [c1 EXCEPT !.pendingPoints = <<>>],
                out |-> <<MoveMsg(operationId, c.pendingPoints)>>]
          ELSE [canvas |-> c1, out |-> <<>>]

\* draw(e), the pointer being at xy, one pixel or more from the last point;
\* due says whether batchInterval has passed since lastBatchTime.
draw(c, xy, due) ==
  IF ~c.isDrawing THEN [canvas |-> c, out |-> <<>>]
  ELSE IF c.currentTool \in ShapeTools
  THEN [canvas |-> [c EXCEPT !.shapeLast = Some(xy)], out |-> <<>>]
  ELSE IF c.currentOperation = Null THEN [canvas |-> c, out |-> <<>>]
  ELSE LET op == c.currentOperation[1]
           buffer == Append(c.pointBuffer, xy)
           c1 == [c EXCEPT !.currentOperation[1].points = Append(@, xy)]
       IN IF ~due
          THEN [canvas |-> [c1 EXCEPT !.pointBuffer = buffer], out |-> <<>>]
          ELSE IF op.id # Null
          THEN [canvas |-> [c1 EXCEPT !.pointBuffer = <<>>],
                out |-> <<MoveMsg(op.id[1], buffer)>>]
          ELSE [canvas |-> [c1 EXCEPT !.pointBuffer = <<>>,
                                      !.pendingPoints = @ \o buffer],
                out |-> <<>>]

\* stopDrawing(). Without an id the points are parked in pendingPoints and a
\* checkForId interval is set; the last statements then empty pendingPoints
\* and set currentOperation to null in both cases.
stopDrawing(c) ==
  IF ~c.isDrawing THEN [canvas |-> c, out |-> <<>>]
  ELSE LET op == c.currentOperation[1]
           reset == [c EXCEPT !.isDrawing = FALSE, !.currentOperation = Null,
                              !.pendingPoints = <<>>]
       IN IF c.currentTool \in ShapeTools
          THEN LET final == IF c.shapeLast # Null THEN c.shapeLast[1]
                            ELSE c.shapeStart[1]
                   r == [reset EXCEPT !.shapeStart = Null, !.shapeLast = Null]
               IN IF op.id # Null
                  THEN [canvas |-> r,
                        out |-> <<MoveMsg(op.id[1], <<final>>),
                                  EndMsg(op.id[1], op.stroke)>>]
                  ELSE [canvas |-> [r EXCEPT !.timers = @ \cup {op.stroke}],
                        out |-> <<>>]
          ELSE LET remainingPoints == c.pointBuffer \o c.pendingPoints
                   r == [reset EXCEPT !.pointBuffer = <<>>]
               IN IF op.id # Null
                  THEN [canvas |-> r,
                        out |-> (IF remainingPoints # <<>>
                                 THEN <<MoveMsg(op.id[1], remainingPoints)>>
                                 ELSE <<>>)
                                \o <<EndMsg(op.id[1], op.stroke)>>]
                  ELSE [canvas |-> [r EXCEPT !.timers = @ \cup {op.stroke}],
                        out |-> <<>>]

\* One run of the setInterval callback checkForId that the stopDrawing of
\* stroke n set: it reads currentOperation and pendingPoints as they are when
\* it runs.
checkForId(c, n) ==
  IF c.currentOperation # Null /\ c.currentOperation[1].id # Null
  THEN LET id == c.currentOperation[1].id[1]
       IN [canvas |-> [c EXCEPT !.timers = @ \ {n}],
           out |-> (IF c.pendingPoints # <<>>
                    THEN <<MoveMsg(id, c.pendingPoints)>> ELSE <<>>)
                   \o <<EndMsg(id, n)>>]
  ELSE [canvas |-> c, out |-> <<>>]

\* --------------------------------------------------------------------- state

VARIABLES
  ds,          \* the room's DrawingState
  lastCall,    \* the latest call on the ledger: its name, the calling socket,
               \* the operation id it named, what it returned, whether it threw
  track,       \* which of the history variables below a run records
  sinceTrunc,  \* history ("calls"): an endOperation dropped an undone tail and
               \* undo was not called since
  undoRedo,    \* history ("calls"): after an undo called with currentIndex >= 0,
               \* the ledger before it and what it returned; kept, with what
               \* redo returned, by a redo that follows at once; else <<>>
  issued,      \* history: the ids startOperation has returned so far, in the
               \* order of the calls ("ids") or in a fixed order ("fresh")
  finalized,   \* history ("ids"): ids in the order endOperation was first
               \* called on them after they were opened
  dropped,     \* history ("dropped"): the id of one entry endOperation dropped
               \* from the array, <<>> while none is followed
  undonePts,   \* history ("calls"): the points each undone entry of the array
               \* had when undo marked it, in the order of the array
  given,       \* history ("stroke"): for each id, what the startOperation that
               \* created the pending operation under it was given, followed by
               \* the batches the addPoints calls naming the id carried since
  lastFinal,   \* history ("stroke"): what `given` held for the operation the
               \* latest call, an endOperation, moved into the array; else <<>>
  preClear,    \* history ("cleared"): the id of one operation the ledger held
               \* when clear was called, <<>> while none is followed
  srv,         \* the server: rooms, connections, Socket.IO room membership
  sent,        \* ("router") the emits of the latest handler run, in order
  lastEvent,   \* the latest handler run ("router"), or the latest handler
               \* run if it was a join-room that did not throw ("registry",
               \* "palette"): the event, the socket, the room it acted on, the
               \* operation id named, what the ledger returned, whether it
               \* threw; for a join-room whether it created the room and
               \* ("palette") the number of the join in the room's lifetime
  inbox,       \* ("sync") for each modelled client the messages on their
               \* way to it, in the order they were emitted
  client,      \* ("sync") for each modelled client its WebSocketManager
  joins,       \* history ("palette"): for each registered room the number of
               \* addUser calls since it was created
  buried,      \* history ("registry"): the ids of the rooms deleted while
               \* their ledger held a history
  page,        \* ("page") the WebSocketManager and welcome form of one page
  canvas,      \* ("canvas") the CanvasManager of one page
  wire         \* ("canvas") the events on their way from the page to the
               \* server (up) and the operation-started ids on their way back
               \* (down), in the order they were emitted, and the number of
               \* draw-start events the server has handled

ledgerVars ==
  <<ds, lastCall, sinceTrunc, undoRedo, issued, finalized, dropped,
    undonePts, given, lastFinal, preClear>>
serverVars ==
  <<srv, sent, lastEvent, inbox, client, joins, buried, page, canvas, wire>>

vars == <<track, ledgerVars, serverVars>>

\* Number of points held by a sequence of operations / by the pending map.
RECURSIVE SumPoints(_)
SumPoints(ops) ==
  IF ops = <<>> THEN 0 ELSE Len(Head(ops).points) + SumPoints(Tail(ops))
RECURSIVE SumPending(_, _)
SumPending(m, ks) ==
  IF ks = {} THEN 0
  ELSE LET k == CHOOSE x \in ks : TRUE
       IN Len(m[k].points) + SumPending(m, ks \ {k})
Stored(d) ==
  SumPoints(d.operations) + SumPending(d.activeOperations, DOMAIN d.activeOperations)

\* The elements of a sequence; whether no element occurs twice.
Range(q) == {q[i] : i \in 1..Len(q)}
NoDup(q) == \A i, j \in 1..Len(q) : q[i] = q[j] => i = j

\* The ids of a sequence of operations, in order / as a set.
IdsOf(ops) == [i \in 1..Len(ops) |-> ops[i].id]
IdSet(ops) == {ops[i].id : i \in 1..Len(ops)}

NoId == <<"op", "-", 0>>

Call(name, by, id, r) ==
  [op |-> name, by |-> by, id |-> id, ret |-> r.ret, threw |-> r.threw]

Event(name, by, room, id, r, created, nth) ==
  [name |-> name, by |-> by, room |-> room, id |-> id, ret |-> r.ret,
   threw |-> r.threw, created |-> created, nth |-> nth]

NoEvent == Event("-", "-", Null, NoId, Ignored(NewServer), FALSE, 0)

InitTrack(t) ==
  /\ ds = NewDrawingState
  /\ lastCall = [op |-> "new", by |-> "-", id |-> NoId, ret |-> Null,
                 threw |-> FALSE]
  /\ track = t
  /\ sinceTrunc = FALSE
  /\ undoRedo = <<>>
  /\ issued = <<>>
  /\ finalized = <<>>
  /\ dropped = <<>>
  /\ undonePts = <<>>
  /\ given = EmptyMap
  /\ lastFinal = <<>>
  /\ preClear = <<>>
  /\ srv = NewServer
  /\ sent = <<>>
  /\ lastEvent = NoEvent
  /\ inbox = [s \in Watched |-> <<>>]
  /\ client = [s \in Watched |-> NewClient]
  /\ joins = EmptyMap
  /\ buried = {}
  /\ page = NewPage
  /\ canvas = NewCanvas
  /\ wire = [up |-> <<>>, down |-> <<>>, served |-> 0]

Init == InitTrack("calls")

\* The tools a run draws with: one, or two where the style of a stroke is
\* followed.
OpenTools == IF track = "stroke" THEN StyledTools ELSE Tools

\* What `given` records at startOperation: the fields getActiveOperations()
\* reports, taken from the call's arguments.
Given(id, data) ==
  [id |-> id, userId |-> data.userId, username |-> data.username,
   type |-> data.tool, color |-> data.color, width |-> data.width,
   points |-> <<data.xy>>]

\* The ids of S in one fixed order: what `issued` holds where only the set of
\* the ids issued so far matters.
Listed(S) ==
  CHOOSE q \in [1..Cardinality(S) -> S] : \A x \in S : \E i \in DOMAIN q : q[i] = x

\* socket.on('draw-start') of socket u: RoomManager.startOperation, startOperation
Open ==
  \E u \in Users, xy \in Origins, tool \in OpenTools, color \in Colors,
     width \in Widths, t \in ClockValues :
    LET data == [userId |-> u, username |-> UserName(u), xy |-> xy,
                 color |-> color, width |-> width, tool |-> tool]
        r == startOperation(ds, data, t)
        id == r.ret[1].operationId
    IN /\ Stored(r.ds) <= MaxPoints
       /\ track = "ids" => Len(issued) < MaxOpens
       /\ track = "fresh" => id \notin Range(issued)
       /\ ds' = r.ds
       /\ lastCall' = Call("startOperation", u, id, r)
       /\ undoRedo' = <<>>
       /\ issued' = CASE track = "ids" -> Append(issued, id)
                      [] track = "fresh" -> Listed(Range(issued) \cup {id})
                      [] OTHER -> issued
       /\ given' = IF track = "stroke"
                   THEN MapSet(given, id, Given(id, data))
                   ELSE given
       /\ lastFinal' = <<>>
       /\ UNCHANGED <<track, sinceTrunc, finalized, dropped, undonePts,
                      preClear>>
       /\ UNCHANGED serverVars

\* socket.on('draw-move'): RoomManager.addPoints, addPoints
Extend ==
  \E id \in Ids, points \in PointsInputs :
    LET r == addPoints(ds, id, points)
    IN /\ Stored(r.ds) <= MaxPoints
       /\ ds' = r.ds
       /\ lastCall' = Call("addPoints", "-", id, r)
       /\ undoRedo' = <<>>
       /\ given' = IF track = "stroke" /\ id \in DOMAIN given /\ ~points.undef
                   THEN [given EXCEPT ![id].points = @ \o points.items]
                   ELSE given
       /\ lastFinal' = <<>>
       /\ UNCHANGED <<track, sinceTrunc, issued, finalized, dropped,
                      undonePts, preClear>>
       /\ UNCHANGED serverVars

\* socket.on('draw-end'): RoomManager.endOperation, endOperation
Finalize ==
  \E id \in Ids :
    LET r == endOperation(ds, id)
        moved == id \in DOMAIN ds.activeOperations
        tail == SubSeq(ds.operations, ds.currentIndex + 2, Len(ds.operations))
    IN /\ ds' = r.ds
       /\ lastCall' = Call("endOperation", "-", id, r)
       /\ undoRedo' = <<>>
       /\ sinceTrunc' = IF track = "calls"
                        THEN (sinceTrunc \/ (moved /\ tail # <<>>))
                        ELSE sinceTrunc
       /\ finalized' = IF track = "ids" /\ id \in Range(issued)
                          /\ id \notin Range(finalized)
                       THEN Append(finalized, id) ELSE finalized
       /\ \/ dropped' = dropped
          \/ /\ track = "dropped" /\ moved
             /\ \E i \in 1..Len(tail) : dropped' = <<tail[i].id>>
       /\ undonePts' = IF moved THEN <<>> ELSE undonePts
       /\ lastFinal' = IF id \in DOMAIN given THEN <<given[id]>> ELSE <<>>
       /\ given' = MapDelete(given, id)
       /\ UNCHANGED <<track, issued, preClear>>
       /\ UNCHANGED serverVars

\* socket.on('undo') of socket u
Undo ==
  \E u \in Users :
    LET r == onUndo(ds, u)
    IN /\ ds' = r.ds
       /\ lastCall' = Call("undo", u, NoId, r)
       /\ sinceTrunc' = FALSE
       /\ undoRedo' = IF track = "calls" /\ ds.currentIndex >= 0
                      THEN <<[before |-> ds, undone |-> r.ret]>>
                      ELSE <<>>
       /\ undonePts' = IF track = "calls" /\ r.ret # Null
                       THEN <<r.ret[1].points>> \o undonePts
                       ELSE undonePts
       /\ lastFinal' = <<>>
       /\ UNCHANGED <<track, issued, finalized, dropped, given, preClear>>
       /\ UNCHANGED serverVars

\* socket.on('redo') of socket u
Redo ==
  \E u \in Users :
    LET r == onRedo(ds, u)
    IN /\ ds' = r.ds
       /\ lastCall' = Call("redo", u, NoId, r)
       /\ undoRedo' = IF lastCall.op = "undo" /\ undoRedo # <<>>
                      THEN <<[before |-> undoRedo[1].before,
                              undone |-> undoRedo[1].undone,
                              redone |-> r.ret]>>
                      ELSE <<>>
       /\ undonePts' = IF r.ret # Null /\ undonePts # <<>>
                       THEN Tail(undonePts)
                       ELSE undonePts
       /\ lastFinal' = <<>>
       /\ UNCHANGED <<track, sinceTrunc, issued, finalized, dropped, given,
                      preClear>>
       /\ UNCHANGED serverVars

\* socket.on('clear-canvas'): RoomManager.clearCanvas, clear
Clear ==
  LET r == clear(ds)
  IN /\ ds' = r.ds
     /\ lastCall' = Call("clear", "-", NoId, r)
     /\ undoRedo' = <<>>
     /\ undonePts' = <<>>
     /\ given' = EmptyMap
     /\ lastFinal' = <<>>
     /\ \/ preClear' = preClear
        \/ /\ track = "cleared"
           /\ \E id \in (DOMAIN ds.activeOperations) \cup IdSet(ds.operations) :
                preClear' = <<id>>
     /\ UNCHANGED <<track, sinceTrunc, issued, finalized, dropped>>
     /\ UNCHANGED serverVars

Next == Open \/ Extend \/ Finalize \/ Undo \/ Redo \/ Clear

\* Every sequence of calls on one ledger.
Spec == Init /\ [][Next]_vars

\* Every sequence of startOperation and endOperation calls on one ledger.
InitIds == InitTrack("ids")
NextOpenFinalize == Open \/ Finalize
SpecOpenFinalize == InitIds /\ [][NextOpenFinalize]_vars

\* Every sequence of calls on one ledger, following one dropped entry.
InitDropped == InitTrack("dropped")
SpecDropped == InitDropped /\ [][Next]_vars

\* Every sequence of startOperation, addPoints and endOperation calls on one
\* ledger, with strokes of two tools, following what each stroke was given.
InitStroke == InitTrack("stroke")
NextStroke == Open \/ Extend \/ Finalize
SpecStroke == InitStroke /\ [][NextStroke]_vars

\* Every sequence of calls on one ledger, following one operation the ledger
\* held when it was cleared.
InitCleared == InitTrack("cleared")
SpecCleared == InitCleared /\ [][Next]_vars

\* Every sequence of calls on one ledger in which the clock gives no socket
\* the same reading twice, so that startOperation builds a new id each time.
InitFresh == InitTrack("fresh")
SpecFresh == InitFresh /\ [][Next]_vars

\* ------------------------------------------------------------ server actions

\* Number of points the ledgers of all rooms hold.
RECURSIVE StoredRooms(_, _)
StoredRooms(rs, ks) ==
  IF ks = {} THEN 0
  ELSE LET k == CHOOSE x \in ks : TRUE
       IN Stored(rs[k].drawingState) + StoredRooms(rs, ks \ {k})
StoredAll(rs) == StoredRooms(rs, DOMAIN rs)

\* The room ids and usernames a join-room payload carries (none: undefined),
\* and the payloads of the events; [nodata |-> TRUE] is an emit without a
\* payload.
JoinRooms ==
  CASE track = "registry" -> {Some(""), Some("a")}
    [] track \in {"palette", "rooms"} -> {Some("a"), Some("b")}
    [] OTHER -> {Some("a")}
JoinNames(s) == {Some(UserName(s))}
JoinPayloads(s) ==
  {[nodata |-> TRUE]} \cup
  {[nodata |-> FALSE, username |-> n, room |-> r] :
     n \in JoinNames(s), r \in JoinRooms}
DrawStartPayloads ==
  {[nodata |-> TRUE]} \cup
  {[nodata |-> FALSE, xy |-> xy, color |-> c, width |-> w, tool |-> tl] :
     xy \in Origins, c \in Colors, w \in Widths, tl \in Tools}
DrawMovePayloads ==
  {[nodata |-> TRUE]} \cup
  {[nodata |-> FALSE, operationId |-> id, points |-> pts] :
     id \in Ids, pts \in PointsInputs}
DrawEndPayloads ==
  {[nodata |-> TRUE]} \cup
  {[nodata |-> FALSE, operationId |-> id] : id \in Ids}
CursorPayloads ==
  {[nodata |-> TRUE]} \cup
  {[nodata |-> FALSE, xy |-> xy, color |-> c] : xy \in Origins, c \in Colors}

\* The sockets that send draw-start, and those that send draw-move and
\* draw-end: both, or one where the emits or the clients are followed.
Starters == IF track \in {"sync", "router"} THEN {"u1"} ELSE Users
Drawers == IF track = "sync" THEN {"u1"} ELSE Users

\* The sockets that send join-room: where the emits are followed, those that
\* have not joined yet.
Joiners ==
  IF track = "router"
  THEN {s \in Users : srv.conn[s].currentRoom = Null}
  ELSE Users

\* The cap on the points the ledgers hold of the run.
PointsCap == IF track = "registry" THEN MaxRegistryStrokes ELSE MaxRoomPoints

\* The cap on colorIndex of the run.
JoinCap == IF track = "palette" THEN MaxJoins ELSE MaxRoomJoins

\* The messages of a handler run that go to client x.
For(x, msgs) == LET Mine(m) == x \in m.to IN SelectSeq(msgs, Mine)

\* The step of a handler run r of socket s: the server takes the state the
\* handler left, the emits are recorded and, where clients are modelled, put
\* on their way. target is the room of a join-room that did not throw.
ServerStep(name, s, room, id, r, target) ==
  LET deleted == (DOMAIN srv.rooms) \ (DOMAIN r.mid)
      kept == [x \in (DOMAIN joins) \cap (DOMAIN r.mid) |-> joins[x]]
      nth == IF target = Null THEN 0
             ELSE (IF target[1] \in DOMAIN kept THEN kept[target[1]] ELSE 0) + 1
  IN /\ srv' = r.st
     /\ sent' = IF track = "router" THEN r.sent ELSE sent
     /\ lastEvent' =
          IF track = "router" \/ (track # "sync" /\ target # Null)
          THEN Event(name, s, room, id, r,
                     target # Null /\ target[1] \notin DOMAIN r.mid,
                     IF track = "palette" THEN nth ELSE 0)
          ELSE NoEvent
     /\ joins' = IF track # "palette" THEN joins
                 ELSE IF target = Null THEN kept
                 ELSE MapSet(kept, target[1], nth)
     /\ buried' = IF track # "registry" THEN buried
                  ELSE buried \cup
                       {x \in deleted :
                          srv.rooms[x].drawingState.operations # <<>>}
     /\ inbox' = IF track # "sync" THEN inbox
                 ELSE [x \in Watched |->
                         IF r.st.conn[x].open
                         THEN inbox[x] \o For(x, r.sent) ELSE <<>>]
     /\ \A x \in Watched : Len(inbox'[x]) <= MaxInFlight
     /\ client' = IF track # "sync" THEN client
                  ELSE [x \in Watched |->
                          IF r.st.conn[x].open THEN client[x] ELSE NewClient]
     /\ UNCHANGED <<track, ledgerVars, page, canvas, wire>>

JoinRoom ==
  \E s \in Joiners :
    /\ srv.conn[s].open
    /\ \E data \in JoinPayloads(s) :
         LET r == HandleJoinRoom(srv, s, data)
             target == IF r.threw THEN Null ELSE r.st.conn[s].currentRoom
         IN /\ ~r.threw => r.st.rooms[target[1]].colorIndex <= JoinCap
            /\ ServerStep("join-room", s, target, NoId, r, target)

DrawStart ==
  \E s \in Starters :
    /\ srv.conn[s].open
    /\ \E data \in DrawStartPayloads, t \in ClockValues :
         LET r == HandleDrawStart(srv, s, data, t)
         IN /\ StoredAll(r.st.rooms) <= PointsCap
            /\ ServerStep("draw-start", s, srv.conn[s].currentRoom,
                          IF r.ret = Null THEN NoId ELSE r.ret[1].operationId,
                          r, Null)

DrawMove ==
  \E s \in Drawers :
    /\ srv.conn[s].open
    /\ \E data \in DrawMovePayloads :
         LET r == HandleDrawMove(srv, s, data)
         IN /\ StoredAll(r.st.rooms) <= PointsCap
            /\ ServerStep("draw-move", s, srv.conn[s].currentRoom,
                          IF data.nodata THEN NoId ELSE data.operationId,
                          r, Null)

DrawEnd ==
  \E s \in Drawers :
    /\ srv.conn[s].open
    /\ \E data \in DrawEndPayloads :
         ServerStep("draw-end", s, srv.conn[s].currentRoom,
                    IF data.nodata THEN NoId ELSE data.operationId,
                    HandleDrawEnd(srv, s, data), Null)

UndoEvent ==
  \E s \in Users :
    /\ srv.conn[s].open
    /\ ServerStep("undo", s, srv.conn[s].currentRoom, NoId,
                  HandleUndo(srv, s), Null)

RedoEvent ==
  \E s \in Users :
    /\ srv.conn[s].open
    /\ ServerStep("redo", s, srv.conn[s].currentRoom, NoId,
                  HandleRedo(srv, s), Null)

ClearCanvas ==
  \E s \in Users :
    /\ srv.conn[s].open
    /\ ServerStep("clear-canvas", s, srv.conn[s].currentRoom, NoId,
                  HandleClearCanvas(srv, s), Null)

CursorMove ==
  \E s \in Users :
    /\ srv.conn[s].open
    /\ \E data \in CursorPayloads :
         ServerStep("cursor-move", s, srv.conn[s].currentRoom, NoId,
                    HandleCursorMove(srv, s, data), Null)

Disconnect ==
  \E s \in Users :
    /\ srv.conn[s].open
    /\ ServerStep("disconnect", s, srv.conn[s].currentRoom, NoId,
                  HandleDisconnect(srv, s), Null)

\* The message at the head of a client's queue reaches its WebSocketManager.
Deliver ==
  \E s \in Watched :
    /\ inbox[s] # <<>>
    /\ client' = [client EXCEPT ![s] = ClientOn(@, Head(inbox[s]))]
    /\ inbox' = [inbox EXCEPT ![s] = Tail(@)]
    /\ UNCHANGED <<track, ledgerVars, srv, sent, lastEvent, joins, buried,
                   page, canvas, wire>>

\* Every sequence of join-room, disconnect, draw-start and draw-end events of
\* two connections, with room ids absent, empty and "a".
InitRegistry == InitTrack("registry")
NextRegistry == JoinRoom \/ Disconnect \/ DrawStart \/ DrawEnd
SpecRegistry == InitRegistry /\ [][NextRegistry]_vars

\* Every sequence of join-room and disconnect events of two connections on
\* rooms "a" and "b".
InitPalette == InitTrack("palette")
NextPalette == JoinRoom \/ Disconnect
SpecPalette == InitPalette /\ [][NextPalette]_vars

\* Every sequence of events of two connections on room "a", each joining at
\* most once and one of them starting the strokes.
InitRouter == InitTrack("router")
NextRouter ==
  \/ JoinRoom \/ DrawStart \/ DrawMove \/ DrawEnd
  \/ UndoEvent \/ RedoEvent \/ ClearCanvas \/ CursorMove \/ Disconnect
SpecRouter == InitRouter /\ [][NextRouter]_vars

\* Every sequence of events of two connections on room "a", one of which
\* draws, and of deliveries to the client of the other.
InitSync == InitTrack("sync")
NextSync == NextRouter \/ Deliver
SpecSync == InitSync /\ [][NextSync]_vars

\* Every sequence of events of two connections on rooms "a" and "b".
InitRooms == InitTrack("rooms")
NextRooms ==
  \/ JoinRoom \/ DrawStart \/ DrawMove \/ DrawEnd
  \/ UndoEvent \/ RedoEvent \/ ClearCanvas \/ Disconnect
SpecRooms == InitRooms /\ [][NextRooms]_vars

\* The socket ids the connections of the page's transport get, in order, and
\* the one of its current connection.
PageSockets == <<"u1", "u2">>
PageSocket == PageSockets[page.n]

\* What is typed into the name and the room input of the welcome form.
NameInputs == {<<>>, <<"a", "n", "n">>}
RoomInputs == {<<>>, <<" ">>, <<"a">>, <<"a", "!">>, <<"!">>}

\* A step of the page: the manager becomes pg, and the server has handled
\* what the step emitted or the disconnect it caused, run r of socket s.
PageStep(name, s, pg, r) ==
  /\ page' = pg
  /\ srv' = r.st
  /\ sent' = r.sent
  /\ lastEvent' = Event(name, s, r.st.conn[s].currentRoom, NoId, r, FALSE, 0)
  /\ UNCHANGED <<track, ledgerVars, inbox, client, joins, buried, canvas,
                 wire>>

\* The transport connects, for the first time or again, and the 'connect'
\* handler runs.
PageConnect ==
  /\ ~page.isConnected
  /\ page.n < Len(PageSockets)
  /\ LET s == PageSockets[page.n + 1]
         c == onConnect([page EXCEPT !.n = @ + 1])
     IN PageStep("connect", s, c.page,
                 IF c.emit.nodata THEN Ignored(srv)
                 ELSE HandleJoinRoom(srv, s, c.emit))

\* The Join button of the welcome form is pressed.
PageHandleJoin ==
  /\ page.isConnected
  /\ page.modal
  /\ \E nameInput \in NameInputs, roomInput \in RoomInputs :
       LET h == handleJoin(nameInput, roomInput)
           j == joinRoom([page EXCEPT !.modal = FALSE], h.username, h.room)
       IN IF h.ok
          THEN PageStep("join-room", PageSocket, j.page,
                        HandleJoinRoom(srv, PageSocket, j.emit))
          ELSE UNCHANGED vars

\* The transport is lost: the server handles the socket's disconnect and the
\* manager its 'disconnect' event.
PageTransportDrop ==
  /\ page.isConnected
  /\ PageStep("disconnect", PageSocket,
              [page EXCEPT !.isConnected = FALSE],
              HandleDisconnect(srv, PageSocket))

\* Every sequence of connects, joins through the welcome form, transport
\* losses and drawing events of one page.
InitPage == InitTrack("page")
NextPage ==
  \/ PageConnect \/ PageHandleJoin \/ PageTransportDrop
  \/ DrawStart \/ DrawMove \/ DrawEnd
SpecPage == InitPage /\ [][NextPage]_vars

\* ------------------------------------------------------------ canvas actions

\* A step of the page: the canvas takes the state the handler left and what
\* the handler emitted goes on the wire (the socket stays connected).
CanvasStep(r) ==
  /\ canvas' = r.canvas
  /\ wire' = [wire EXCEPT !.up = @ \o r.out]
  /\ UNCHANGED <<track, ledgerVars, srv, sent, lastEvent, inbox, client, joins,
                 buried, page>>

\* A tool button is pressed while no stroke is being drawn.
SetTool ==
  /\ ~canvas.isDrawing
  /\ \E tool \in CanvasTools \ {canvas.currentTool} :
       CanvasStep([canvas |-> [canvas EXCEPT !.currentTool = tool],
                   out |-> <<>>])

\* mousedown: stroke n starts at x = n, so that a point tells its stroke.
MouseDown ==
  /\ ~canvas.isDrawing
  /\ canvas.strokes < MaxStrokes
  /\ CanvasStep(startDrawing(canvas, <<canvas.strokes + 1, 0>>))

\* mousemove while drawing
MouseMove ==
  /\ canvas.isDrawing
  /\ LET op == canvas.currentOperation[1]
         moved == IF canvas.currentTool \in ShapeTools
                  THEN (IF canvas.shapeLast = Null THEN 0
                        ELSE canvas.shapeLast[1][2])
                  ELSE Len(op.points) - 1
     IN /\ moved < MaxStrokeMoves
        /\ \E due \in BOOLEAN :
             CanvasStep(draw(canvas, <<op.stroke, moved + 1>>, due))

\* mouseup or mouseleave
MouseUp ==
  /\ canvas.isDrawing
  /\ CanvasStep(stopDrawing(canvas))

\* A checkForId interval fires.
CheckForId ==
  \E n \in canvas.timers : CanvasStep(checkForId(canvas, n))

\* The one-second timeout clears a checkForId interval. The server has
\* answered every draw-start within that second, and an interval that found
\* an id has sent before the timeout runs.
CheckTimeout ==
  \E n \in canvas.timers :
    /\ wire.down = <<>>
    /\ \A k \in 1..Len(wire.up) : wire.up[k].event # "draw-start"
    /\ ~(canvas.currentOperation # Null /\ canvas.currentOperation[1].id # Null)
    /\ CanvasStep([canvas |-> [canvas EXCEPT !.timers = @ \ {n}],
                   out |-> <<>>])

\* The server handles the oldest event of the page: the ledger of the page's
\* room takes the call and, for a draw-start, operation-started goes back.
\* Date.now() gives a later reading at each draw-start.
ServerReceive ==
  /\ wire.up # <<>>
  /\ LET m == Head(wire.up)
         r == CASE m.event = "draw-start" ->
                     startOperation(ds, [userId |-> CanvasSocket,
                                         username |-> DefaultName(CanvasSocket),
                                         xy |-> m.xy, color |-> m.color,
                                         width |-> m.width, tool |-> m.tool],
                                    wire.served + 1)
                [] m.event = "draw-move" ->
                     addPoints(ds, m.operationId,
                               [undef |-> FALSE, items |-> m.points])
                [] OTHER -> endOperation(ds, m.operationId)
     IN /\ ds' = r.ds
        /\ wire' = IF m.event = "draw-start"
                    THEN [up |-> Tail(wire.up),
                          down |-> Append(wire.down, r.ret[1].operationId),
                          served |-> wire.served + 1]
                    ELSE [wire EXCEPT !.up = Tail(@)]
        /\ UNCHANGED <<track, lastCall, sinceTrunc, undoRedo, issued, finalized,
                       dropped, undonePts, given, lastFinal, preClear, srv, sent,
                       lastEvent, inbox, client, joins, buried, page, canvas>>

\* socket.on('operation-started'): onOperationStarted, setOperationId
OperationStarted ==
  /\ wire.down # <<>>
  /\ LET r == setOperationId(canvas, Head(wire.down))
     IN /\ canvas' = r.canvas
        /\ wire' = [wire EXCEPT !.up = @ \o r.out, !.down = Tail(@)]
        /\ UNCHANGED <<track, ledgerVars, srv, sent, lastEvent, inbox, client,
                       joins, buried, page>>

\* Every interleaving of the pointer events of one page that has joined a
\* room with the server's handling of its events and the arrival of the
\* operation-started replies.
InitCanvas == InitTrack("canvas")
NextCanvas ==
  \/ SetTool \/ MouseDown \/ MouseMove \/ MouseUp
  \/ CheckForId \/ CheckTimeout \/ ServerReceive \/ OperationStarted
SpecCanvas == InitCanvas /\ [][NextCanvas]_vars

\* The same, where every stroke is ended, the server handles every event, every
\* reply arrives and every interval keeps firing until it is cleared.
SpecCanvasLive ==
  /\ SpecCanvas
  /\ WF_vars(MouseUp)
  /\ WF_vars(ServerReceive)
  /\ WF_vars(OperationStarted)
  /\ WF_vars(CheckForId)

\* -------------------------------------------------------------------- claims

\* Ids that are neither in the pending map nor in the history.
UnknownIds == Ids \ ((DOMAIN ds.activeOperations) \cup IdSet(ds.operations))

\* C1: in every reachable state -1 <= currentIndex <= length-1, every entry at
\* an index <= currentIndex is active and every entry after it is undone, so
\* the number of active entries is currentIndex + 1.
C1_CursorSplitsHistory ==
  /\ -1 <= ds.currentIndex
  /\ ds.currentIndex <= Len(ds.operations) - 1
  /\ \A i \in 1..Len(ds.operations) :
       ds.operations[i].status =
         (IF i - 1 <= ds.currentIndex THEN "active" ELSE "undone")
  /\ Len(getActiveOperations(ds)) = ds.currentIndex + 1

\* A history with an active entry, an undone entry behind it and an operation
\* still pending, right after an undo.
C1_Witness ==
  /\ lastCall.op = "undo"
  /\ ds.currentIndex = 0
  /\ Len(ds.operations) = 2
  /\ DOMAIN ds.activeOperations # {}

\* C2: after any sequence of startOperation and endOperation calls in which
\* startOperation returned distinct ids, getActiveOperations() returns the
\* finalized operations, each once, in the order of their endOperation calls.
C2_ActiveInFinalizeOrder ==
  NoDup(issued) =>
    LET act == getActiveOperations(ds)
    IN /\ IdsOf(act) = finalized
       /\ \A i \in 1..Len(act) :
            /\ act[i].id = OpId(act[i].userId, act[i].id[3])
            /\ Len(act[i].points) = 1

\* Two operations with distinct ids finalized in the reverse of the order they
\* were opened in.
C2_Witness ==
  /\ NoDup(issued)
  /\ Len(issued) >= 2
  /\ Len(finalized) = 2
  /\ finalized[1] = issued[2]
  /\ finalized[2] = issued[1]
  /\ lastCall.op = "endOperation"

\* C3: whenever currentIndex >= 0, undo from any socket returns the entry at
\* currentIndex, which is the last active entry of the history, marks it
\* undone and decrements currentIndex by exactly one.
C3_UndoReturnsTop ==
  ds.currentIndex >= 0 =>
    \A u \in Users :
      LET r == onUndo(ds, u)
          top == ds.operations[ds.currentIndex + 1]
      IN /\ top.status = "active"
         /\ \A j \in (ds.currentIndex + 2)..Len(ds.operations) :
              ds.operations[j].status # "active"
         /\ r.ret = Some([top EXCEPT !.status = "undone"])
         /\ ~r.threw
         /\ r.ds = [ds EXCEPT !.operations[ds.currentIndex + 1].status = "undone",
                              !.currentIndex = ds.currentIndex - 1]

\* An undo by a socket that is not the author has just returned an operation,
\* and another active entry is left to undo.
C3_Witness ==
  /\ lastCall.op = "undo"
  /\ lastCall.ret # Null
  /\ lastCall.ret[1].userId # lastCall.by
  /\ ds.operations[ds.currentIndex + 2].id = lastCall.ret[1].id
  /\ ds.currentIndex >= 0

\* C4: undo called with currentIndex = -1 returns null and leaves the history,
\* the statuses, currentIndex and the pending map as they were; currentIndex
\* is never below -1.
C4_UndoAtBottomIsNoop ==
  /\ ds.currentIndex >= -1
  /\ ds.currentIndex = -1 =>
       \A u \in Users :
         onUndo(ds, u) = [ds |-> ds, ret |-> Null, threw |-> FALSE]
  /\ (lastCall.op = "undo" /\ lastCall.ret = Null) => ds.currentIndex = -1

\* An undo has just returned null on a ledger whose two entries are undone
\* and which holds a pending operation.
C4_Witness ==
  /\ lastCall.op = "undo"
  /\ lastCall.ret = Null
  /\ ds.currentIndex = -1
  /\ Len(ds.operations) = 2
  /\ DOMAIN ds.activeOperations # {}

\* C5: when undo is called with currentIndex >= 0 and redo is the next call,
\* both return the same operation id, redo returns the entry as it was before
\* the undo, and the ledger is exactly as it was before the undo.
C5_UndoRedoRestores ==
  /\ undoRedo # <<>> => undoRedo[1].undone # Null
  /\ (undoRedo # <<>> /\ "redone" \in DOMAIN undoRedo[1]) =>
       LET h == undoRedo[1]
       IN /\ h.redone # Null
          /\ h.redone[1].id = h.undone[1].id
          /\ h.redone[1] = h.before.operations[h.before.currentIndex + 1]
          /\ ds = h.before

\* A redo has just followed an undo on a ledger that holds an extended entry,
\* another undone entry behind the restored one and a pending operation.
C5_Witness ==
  /\ undoRedo # <<>>
  /\ "redone" \in DOMAIN undoRedo[1]
  /\ lastCall.op = "redo"
  /\ Len(ds.operations) = 2
  /\ ds.currentIndex = 0
  /\ Len(ds.operations[1].points) = 2

\* C6: endOperation of a pending operation while currentIndex < length-1 makes
\* the history the old entries 0..currentIndex followed by the operation, with
\* currentIndex the new last index; redo returns null from then until the
\* next undo.
C6_FinalizeDropsRedoTail ==
  /\ ds.currentIndex < Len(ds.operations) - 1 =>
       \A id \in DOMAIN ds.activeOperations :
         LET r == endOperation(ds, id)
         IN /\ r.ds.operations =
                 SubSeq(ds.operations, 1, ds.currentIndex + 1)
                   \o <<[ds.activeOperations[id] EXCEPT !.status = "active"]>>
            /\ r.ds.currentIndex = Len(r.ds.operations) - 1
  /\ sinceTrunc =>
       /\ \A u \in Users : onRedo(ds, u).ret = Null
       /\ lastCall.op = "redo" => lastCall.ret = Null

\* A redo has just returned null after an endOperation dropped an undone tail,
\* with no undo in between.
C6_Witness ==
  /\ sinceTrunc
  /\ lastCall.op = "redo"
  /\ lastCall.ret = Null
  /\ Len(ds.operations) = 2

C8_IdsNeverReused == NoDup(issued)

\* C9: endOperation of an id that is already in the history leaves the ledger
\* as it is.
C9_FinalizeIdempotent ==
  \A id \in IdSet(ds.operations) :
    endOperation(ds, id) = [ds |-> ds, ret |-> Null, threw |-> FALSE]

\* C10: addPoints with an id that is neither pending nor in the history does
\* not throw and changes nothing, whatever the payload's points are.
C10_ExtendUnknownIsNoop ==
  /\ \A id \in UnknownIds, points \in PointsInputs :
       addPoints(ds, id, points) = [ds |-> ds, ret |-> Null, threw |-> FALSE]
  /\ (lastCall.op = "addPoints" /\ lastCall.id \in UnknownIds) => ~lastCall.threw

\* An addPoints naming an unknown id has just been processed on a ledger that
\* holds an extended entry and a pending operation.
C10_Witness ==
  /\ lastCall.op = "addPoints"
  /\ lastCall.id \in UnknownIds
  /\ Len(ds.operations) = 1
  /\ Len(ds.operations[1].points) = 2
  /\ DOMAIN ds.activeOperations # {}

\* C11: addPoints naming an id that is not pending and that operations.find
\* resolves to an active entry of the history appends the points to that
\* entry and changes nothing else; so that on a ledger holding a pending
\* operation endOperation followed by addPoints gives the same
\* getActiveOperations() as addPoints followed by endOperation.
C11_LateExtendCommutes ==
  \A id \in Ids, b \in Batches :
    LET points == [undef |-> FALSE, items |-> b]
        i == FindById(ds.operations, id)
    IN /\ ( /\ id \notin DOMAIN ds.activeOperations
            /\ i # 0
            /\ ds.operations[i].status = "active" ) =>
            addPoints(ds, id, points).ds =
              [ds EXCEPT !.operations[i].points = @ \o b]
       /\ id \in DOMAIN ds.activeOperations =>
            getActiveOperations(
                addPoints(endOperation(ds, id).ds, id, points).ds) =
              getActiveOperations(
                endOperation(addPoints(ds, id, points).ds, id).ds)

\* C12: addPoints leaves every undone entry of the history as it is, and is
\* a no-op that does not throw when the id it names resolves to an undone
\* entry; so each undone entry holds the points it had when undo marked it,
\* and redo returns the entry with exactly those points.
C12_ExtendUndoneIsNoop ==
  /\ \A id \in Ids, points \in PointsInputs :
       LET r == addPoints(ds, id, points)
           i == FindById(ds.operations, id)
       IN /\ Len(r.ds.operations) = Len(ds.operations)
          /\ \A j \in 1..Len(ds.operations) :
               ds.operations[j].status = "undone" =>
                 r.ds.operations[j] = ds.operations[j]
          /\ ( /\ id \notin DOMAIN ds.activeOperations
               /\ i # 0
               /\ ds.operations[i].status = "undone" ) =>
               r = [ds |-> ds, ret |-> Null, threw |-> FALSE]
  /\ Len(undonePts) = Len(ds.operations) - (ds.currentIndex + 1)
  /\ \A k \in 1..Len(undonePts) :
       ds.operations[ds.currentIndex + 1 + k].points = undonePts[k]
  /\ undonePts # <<>> =>
       \A u \in Users :
         /\ onRedo(ds, u).ret # Null
         /\ onRedo(ds, u).ret[1].points = undonePts[1]

\* An addPoints carrying a batch has just named an id whose only operation is
\* an undone entry of the history, extended before it was undone.
C12_Witness ==
  /\ lastCall.op = "addPoints"
  /\ lastCall.id \notin DOMAIN ds.activeOperations
  /\ FindById(ds.operations, lastCall.id) # 0
  /\ ds.operations[FindById(ds.operations, lastCall.id)].status = "undone"
  /\ Len(ds.operations[FindById(ds.operations, lastCall.id)].points) = 2
  /\ undonePts # <<>>

\* C13: right after endOperation moved an operation into the history, the
\* last entry of getActiveOperations() has the origin given to startOperation
\* followed by the batches of the addPoints calls that named the id since, in
\* the order of the calls, with the author, tool, colour and width given to
\* startOperation.
C13_PointsInExtendOrder ==
  /\ \A id \in DOMAIN given :
       /\ id \in DOMAIN ds.activeOperations
       /\ Project(ds.activeOperations[id]) = given[id]
  /\ lastFinal # <<>> =>
       LET act == getActiveOperations(ds)
       IN /\ act # <<>>
          /\ act[Len(act)] = lastFinal[1]

\* An eraser stroke extended by two different batches has just been
\* finalized.
C13_Witness ==
  /\ lastFinal # <<>>
  /\ lastCall.op = "endOperation"
  /\ lastFinal[1].type = "eraser"
  /\ Len(lastFinal[1].points) = 3
  /\ lastFinal[1].points[2] # lastFinal[1].points[3]

\* C17: clear leaves the ledger as the constructor does, so that right after
\* it addPoints and endOperation add nothing and undo and redo return null;
\* and an operation the ledger held when it was cleared is in the history in
\* no later state.
C17_ClearForgetsOperations ==
  /\ lastCall.op = "clear" =>
       /\ ds = NewDrawingState
       /\ \A u \in Users :
            onUndo(ds, u).ret = Null /\ onRedo(ds, u).ret = Null
       /\ \A id \in Ids :
            /\ endOperation(ds, id).ds = ds
            /\ \A points \in PointsInputs : addPoints(ds, id, points).ds = ds
  /\ preClear # <<>> => preClear[1] \notin IdSet(ds.operations)

\* The sockets that are connected and hold a truthy currentRoom, the room of
\* such a socket, and the ids in a room's roster.
JoinedSockets ==
  {s \in Users : srv.conn[s].open /\ Truthy(srv.conn[s].currentRoom)}
RoomOf(s) == srv.conn[s].currentRoom[1]
RosterOf(room) == RosterIds(srv.rooms[room].users)

\* C14: whenever the room's history is not empty (a draw-end was processed
\* since the last clear) and no message is on its way to a member's client,
\* the client's operations list equals getActiveOperations() of the room.
C14_ClientsAgreeWhenDelivered ==
  \A s \in Watched \cap JoinedSockets :
    ( /\ inbox[s] = <<>>
      /\ srv.rooms[RoomOf(s)].drawingState.operations # <<>> ) =>
      client[s].operations =
        getActiveOperations(srv.rooms[RoomOf(s)].drawingState)

\* C15: a draw-end carrying an operation id, from a socket that has joined a
\* room, calls endOperation on the room's ledger and emits exactly two
\* messages: first remote-draw-end to the room's members other than the
\* sender, then operations-updated, carrying getActiveOperations() of the
\* ledger after the call, to all of the room's members, the sender among them.
C15_DrawEndResyncsAll ==
  /\ \A s \in JoinedSockets, id \in Ids :
       LET room == RoomOf(s)
           r == HandleDrawEnd(srv, s, [nodata |-> FALSE, operationId |-> id])
           fin == endOperation(srv.rooms[room].drawingState, id).ds
       IN /\ s \in RosterOf(room)
          /\ r.st = [srv EXCEPT !.rooms[room].drawingState = fin]
          /\ r.sent =
               <<Msg("remote-draw-end", RosterOf(room) \ {s},
                     [userId |-> s, operationId |-> id]),
                 Msg("operations-updated", RosterOf(room),
                     [operations |-> getActiveOperations(fin)])>>
  /\ ( /\ lastEvent.name = "draw-end"
       /\ Truthy(lastEvent.room)
       /\ ~lastEvent.threw ) =>
       /\ Len(sent) = 2
       /\ sent[1].event = "remote-draw-end"
       /\ sent[1].to = RosterOf(lastEvent.room[1]) \ {lastEvent.by}
       /\ sent[2].event = "operations-updated"
       /\ sent[2].to = RosterOf(lastEvent.room[1])
       /\ sent[2].payload.operations =
            getActiveOperations(srv.rooms[lastEvent.room[1]].drawingState)

\* A draw-end has just finalized a stroke in a room of two members: the last
\* operation of the list sent to both is the one the event named.
C15_Witness ==
  /\ lastEvent.name = "draw-end"
  /\ Len(sent) = 2
  /\ Cardinality(sent[2].to) = 2
  /\ sent[1].to # {}
  /\ sent[2].payload.operations # <<>>
  /\ sent[2].payload.operations[Len(sent[2].payload.operations)].id =
       lastEvent.id

\* C16: an undo or redo from a socket that has joined a room emits
\* operations-updated, carrying getActiveOperations() of the ledger after the
\* call, to all of the room's members when the ledger's undo / redo returned
\* an operation, and only then; when it returned null nothing is emitted and
\* the server's state is unchanged.
C16_UndoRedoResyncIffReturned ==
  /\ \A s \in JoinedSockets :
       LET room == RoomOf(s)
           Right(r, h) ==
             IF r.ret = Null
             THEN h.st = srv /\ h.sent = <<>>
             ELSE /\ h.st = [srv EXCEPT !.rooms[room].drawingState = r.ds]
                  /\ h.sent =
                       <<Msg("operations-updated", RosterOf(room),
                             [operations |-> getActiveOperations(r.ds)])>>
                  /\ s \in RosterOf(room)
       IN /\ Right(undo(srv.rooms[room].drawingState), HandleUndo(srv, s))
          /\ Right(redo(srv.rooms[room].drawingState), HandleRedo(srv, s))
  /\ ( /\ lastEvent.name \in {"undo", "redo"}
       /\ Truthy(lastEvent.room) ) =>
       /\ (lastEvent.ret = Null) <=> (sent = <<>>)
       /\ sent # <<>> =>
            /\ Len(sent) = 1
            /\ sent[1].to = RosterOf(lastEvent.room[1])
            /\ sent[1].payload.operations =
                 getActiveOperations(srv.rooms[lastEvent.room[1]].drawingState)

\* An undo by a socket that is not the author has just returned an operation
\* in a room of two members, and the list was sent to both.
C16_Witness ==
  /\ lastEvent.name = "undo"
  /\ lastEvent.ret # Null
  /\ lastEvent.ret[1].userId # lastEvent.by
  /\ Len(sent) = 1
  /\ sent[1].to = Users

\* C18: every connection is in the roster of at most one room.
C18_OneRoomPerConnection ==
  \A s \in Users :
    Cardinality({room \in DOMAIN srv.rooms : s \in RosterOf(room)}) <= 1

\* C19: no registered room has an empty roster; removeUser of a room's only
\* user removes the room; getRoom of an unregistered id gives a room with the
\* ledger the constructor makes; and a join-room that created its room leaves
\* it with that ledger, the joiner alone in the roster.
C19_EmptyRoomsAreRemoved ==
  /\ \A room \in DOMAIN srv.rooms : srv.rooms[room].users # <<>>
  /\ \A room \in DOMAIN srv.rooms, s \in Users :
       RosterOf(room) = {s} =>
         room \notin DOMAIN removeUser(srv.rooms, room, s)
  /\ \A room \in {"", "a", "default"} \ DOMAIN srv.rooms :
       getRoom(srv.rooms, room)[room].drawingState = NewDrawingState
  /\ (lastEvent.name = "join-room" /\ lastEvent.created) =>
       /\ srv.rooms[lastEvent.room[1]].drawingState = NewDrawingState
       /\ RosterOf(lastEvent.room[1]) = {lastEvent.by}

\* A join-room has just created a room under the id of a room that was
\* deleted while its ledger held a stroke.
C19_Witness ==
  /\ lastEvent.name = "join-room"
  /\ lastEvent.created
  /\ lastEvent.room[1] \in buried

\* C20: a room's colorIndex is the number of addUser calls since the room was
\* created, and the user of the Nth of them has the colour
\* userColors[(N-1) mod 8], whoever left in between.
C20_ColorsRoundRobin ==
  /\ \A room \in DOMAIN srv.rooms :
       /\ room \in DOMAIN joins
       /\ srv.rooms[room].colorIndex = joins[room]
  /\ lastEvent.name = "join-room" =>
       LET usr == srv.conn[lastEvent.by].currentUser[1]
           users == srv.rooms[lastEvent.room[1]].users
       IN /\ usr.color =
               userColors[((lastEvent.nth - 1) % Len(userColors)) + 1]
          /\ users[FindById(users, lastEvent.by)] = usr

\* The ninth join-room of a room's lifetime has just been processed, in a
\* room of two members: the colour is the first of the palette again.
C20_Witness ==
  /\ lastEvent.name = "join-room"
  /\ lastEvent.nth = 9
  /\ Len(srv.rooms[lastEvent.room[1]].users) = 2
  /\ srv.conn[lastEvent.by].currentUser[1].color = userColors[1]

\* C21: a join-room whose room id is the empty string joins room "default":
\* the socket's currentRoom is "default", the socket is in the roster of
\* "default", and a draw-start it sends afterwards changes the ledger of
\* "default".
C21_BlankRoomJoinsDefault ==
  \A s \in Users :
    srv.conn[s].open =>
      LET r == HandleJoinRoom(srv, s, [nodata |-> FALSE,
                                       username |-> Some(UserName(s)),
                                       room |-> Some("")])
      IN /\ r.st.conn[s].currentRoom = Some("default")
         /\ "default" \in DOMAIN r.st.rooms
         /\ s \in RosterIds(r.st.rooms["default"].users)
         /\ \A data \in DrawStartPayloads, t \in ClockValues :
              ~data.nodata =>
                HandleDrawStart(r.st, s, data, t).st.rooms["default"].drawingState
                  # r.st.rooms["default"].drawingState

\* C22: a connection whose disconnect event has been processed is in the
\* roster of no room, and the disconnect handler sends user-left to the
\* members that remain in the rosters the connection was in.
C22_DisconnectLeavesEveryRoster ==
  /\ \A s \in Users :
       ~srv.conn[s].open =>
         \A room \in DOMAIN srv.rooms : s \notin RosterOf(room)
  /\ \A s \in Users :
       srv.conn[s].open =>
         LET r == HandleDisconnect(srv, s)
             was == {room \in DOMAIN srv.rooms : s \in RosterOf(room)}
         IN \A room \in was :
              /\ room \in DOMAIN r.st.rooms =>
                   s \notin RosterIds(r.st.rooms[room].users)
              /\ RosterOf(room) # {s} =>
                   /\ Len(r.sent) = 1
                   /\ r.sent[1].event = "user-left"
                   /\ r.sent[1].to = RosterOf(room) \ {s}
                   /\ r.sent[1].payload.userId = s

\* An operation with its status and points masked: what stays the same while
\* the operation is extended, finalized, undone and redone.
Masked(op) == [op EXCEPT !.status = "-", !.points = <<>>]

\* The status moves of one step from ledger d to ledger e, the step's call
\* being c. Pending operations are 'in-progress' and entries of the array are
\* 'active' or 'undone'; an entry of the array is the entry that was at its
\* index before, or it is the last one and was pending, is not pending any
\* more and is 'active'; a pending operation was pending before, or it is the
\* object the step's startOperation made.
StatusMoves(d, e, c) ==
  /\ \A id \in DOMAIN e.activeOperations :
       /\ e.activeOperations[id].status = "in-progress"
       /\ \/ /\ id \in DOMAIN d.activeOperations
             /\ Masked(e.activeOperations[id]) = Masked(d.activeOperations[id])
          \/ /\ c.op = "startOperation"
             /\ c.id = id
             /\ Len(e.activeOperations[id].points) = 1
  /\ \A i \in 1..Len(e.operations) :
       /\ e.operations[i].status \in {"active", "undone"}
       /\ \/ /\ i <= Len(d.operations)
             /\ Masked(e.operations[i]) = Masked(d.operations[i])
             /\ d.operations[i].status \in {"active", "undone"}
          \/ /\ i = Len(e.operations)
             /\ e.operations[i].status = "active"
             /\ e.operations[i].id \in DOMAIN d.activeOperations
             /\ e.operations[i].id \notin DOMAIN e.activeOperations
             /\ Masked(e.operations[i]) =
                  Masked(d.activeOperations[e.operations[i].id])

\* C30: in every step a pending operation stays 'in-progress' or moves into
\* the array as 'active' (endOperation), and an entry of the array only
\* changes between 'active' and 'undone' (undo, redo): no entry of the array
\* is 'in-progress' or moves back into the pending map, and no pending
\* operation enters the array as 'undone'.
C30_StatusOnlyMovesForward == [][StatusMoves(ds, ds', lastCall')]_vars

\* A redo has just made an undone entry active again while another operation
\* is pending.
C30_Witness ==
  /\ lastCall.op = "redo"
  /\ lastCall.ret # Null
  /\ ds.operations[ds.currentIndex + 1].status = "active"
  /\ DOMAIN ds.activeOperations # {}

\* The sockets that are connected and have not joined a room: currentRoom
\* still holds the null it was declared with.
UnjoinedSockets ==
  {s \in Users : srv.conn[s].open /\ srv.conn[s].currentRoom = Null}

\* C23: every event other than join-room from a connected socket that has not
\* joined leaves the server's state as it is and emits nothing, and its
\* disconnect leaves the rooms as they are and emits nothing.
C23_UnjoinedIntentsAreDropped ==
  /\ \A s \in UnjoinedSockets :
       /\ \A data \in DrawStartPayloads, t \in ClockValues :
            HandleDrawStart(srv, s, data, t) = Ignored(srv)
       /\ \A data \in DrawMovePayloads :
            HandleDrawMove(srv, s, data) = Ignored(srv)
       /\ \A data \in DrawEndPayloads :
            HandleDrawEnd(srv, s, data) = Ignored(srv)
       /\ \A data \in CursorPayloads :
            HandleCursorMove(srv, s, data) = Ignored(srv)
       /\ HandleUndo(srv, s) = Ignored(srv)
       /\ HandleRedo(srv, s) = Ignored(srv)
       /\ HandleClearCanvas(srv, s) = Ignored(srv)
       /\ HandleDisconnect(srv, s).st.rooms = srv.rooms
       /\ HandleDisconnect(srv, s).sent = <<>>
  /\ ( /\ lastEvent.name \notin {"-", "join-room"}
       /\ lastEvent.room = Null ) =>
       /\ sent = <<>>
       /\ ~lastEvent.threw
       /\ lastEvent.ret = Null
       /\ \A room \in DOMAIN srv.rooms : lastEvent.by \notin RosterOf(room)

\* A clear-canvas of a socket that has not joined has just been handled while
\* the other socket's room holds an operation.
C23_Witness ==
  /\ lastEvent.name = "clear-canvas"
  /\ lastEvent.room = Null
  /\ srv.conn[lastEvent.by].open
  /\ \E room \in DOMAIN srv.rooms : Stored(srv.rooms[room].drawingState) > 0

\* Payloads with a part missing; a property that is missing reads undefined.
\* draw-start: no payload, no coordinates, no style; draw-move: no payload, no
\* operation id, no points list.
UndefinedXY == <<-1, -1>>
UndefinedId == <<"undefined">>
MalformedStarts ==
  {[nodata |-> TRUE]} \cup
  {[nodata |-> FALSE, xy |-> UndefinedXY, color |-> c, width |-> w,
    tool |-> tl] : c \in Colors, w \in Widths, tl \in Tools} \cup
  {[nodata |-> FALSE, xy |-> xy, color |-> "undefined",
    width |-> "undefined", tool |-> "undefined"] : xy \in Origins}
MalformedMoves ==
  {[nodata |-> TRUE]} \cup
  {[nodata |-> FALSE, operationId |-> UndefinedId, points |-> pts] :
     pts \in PointsInputs} \cup
  {[nodata |-> FALSE, operationId |-> id, points |-> [undef |-> TRUE]] :
     id \in Ids}

\* C24: a draw-start or draw-move with a malformed payload, from a socket that
\* has joined a room, leaves the rooms, and with them the pending map and the
\* array of the room's ledger, as they are.
C24_MalformedDrawingIsDropped ==
  \A s \in JoinedSockets :
    /\ \A data \in MalformedMoves :
         HandleDrawMove(srv, s, data).st.rooms = srv.rooms
    /\ \A data \in MalformedStarts, t \in ClockValues :
         HandleDrawStart(srv, s, data, t).st.rooms = srv.rooms

\* C26: a join-room with a payload emits room-state to the joining socket,
\* carrying the user addUser returned, getActiveOperations() of the joined
\* room and the room's roster with that user in it, the user's colour being
\* the one at the room's colour cursor; and then user-joined, carrying the
\* user, to the other connected sockets of the room's roster.
C26_JoinSendsSnapshot ==
  /\ \A s \in Users : \A data \in JoinPayloads(s) :
       (srv.conn[s].open /\ ~data.nodata) =>
         LET r == HandleJoinRoom(srv, s, data)
             room == r.st.conn[s].currentRoom[1]
             usr == r.st.conn[s].currentUser[1]
             users == r.st.rooms[room].users
             cursor == IF room \in DOMAIN r.mid
                       THEN r.mid[room].colorIndex ELSE 0
         IN /\ r.sent =
                 <<Msg("room-state", {s},
                       [user |-> usr,
                        operations |->
                          getActiveOperations(r.st.rooms[room].drawingState),
                        users |-> users]),
                   Msg("user-joined",
                       {x \in RosterIds(users) : srv.conn[x].open} \ {s},
                       usr)>>
            /\ usr.id = s
            /\ usr.color = userColors[(cursor % Len(userColors)) + 1]
            /\ FindById(users, s) # 0
            /\ users[FindById(users, s)] = usr
  /\ (lastEvent.name = "join-room" /\ ~lastEvent.threw) =>
       LET room == lastEvent.room[1]
       IN /\ Len(sent) = 2
          /\ sent[1].event = "room-state"
          /\ sent[1].to = {lastEvent.by}
          /\ sent[1].payload.operations =
               getActiveOperations(srv.rooms[room].drawingState)
          /\ sent[1].payload.users = srv.rooms[room].users
          /\ sent[1].payload.user = srv.conn[lastEvent.by].currentUser[1]
          /\ sent[2].event = "user-joined"
          /\ sent[2].to = RosterOf(room) \ {lastEvent.by}

\* The second socket has just joined a room that holds a finalized stroke.
C26_Witness ==
  /\ lastEvent.name = "join-room"
  /\ Len(sent) = 2
  /\ sent[1].payload.operations # <<>>
  /\ Len(sent[1].payload.users) = 2
  /\ sent[1].payload.user.color = userColors[2]
  /\ sent[2].to # {}

\* C27: a cursor-move from a joined socket is forwarded with the colour of the
\* socket's entry in the roster of its room, which is the user the latest
\* join-room's addUser returned; a draw-start is forwarded, and its operation
\* stored, with the colour, width and tool of its payload.
C27_ColorsAreNotMixed ==
  \A s \in JoinedSockets :
    LET room == RoomOf(s)
        users == srv.rooms[room].users
        usr == users[FindById(users, s)]
    IN /\ usr = srv.conn[s].currentUser[1]
       /\ \E k \in 1..Len(userColors) : usr.color = userColors[k]
       /\ \A data \in CursorPayloads :
            ~data.nodata =>
              HandleCursorMove(srv, s, data) =
                Done(srv,
                     <<Msg("remote-cursor", RosterOf(room) \ {s},
                           [userId |-> s, username |-> usr.username,
                            color |-> usr.color, xy |-> data.xy])>>,
                     Null, FALSE)
       /\ \A data \in DrawStartPayloads, t \in ClockValues :
            ~data.nodata =>
              LET r == HandleDrawStart(srv, s, data, t)
                  op == r.st.rooms[room].drawingState.activeOperations[OpId(s, t)]
              IN /\ Len(r.sent) = 2
                 /\ r.sent[2].event = "remote-draw-start"
                 /\ r.sent[2].payload.color = data.color
                 /\ r.sent[2].payload.width = data.width
                 /\ r.sent[2].payload.tool = data.tool
                 /\ op.color = data.color
                 /\ op.width = data.width
                 /\ op.type = data.tool

\* A cursor-move of the second socket to join has just been forwarded to the
\* first, with the second colour of the palette.
C27_Witness ==
  /\ lastEvent.name = "cursor-move"
  /\ Len(sent) = 1
  /\ sent[1].to # {}
  /\ sent[1].payload.color = userColors[2]
  /\ sent[1].payload.color \notin Colors

\* C28: when a socket leaves a room in which another user remains, by its
\* disconnect or by a join-room to another room, the room's ledger is what it
\* was; and undo by a remaining socket, whoever the author is, returns the
\* last active entry, which a redo right after makes active again.
C28_StrokesOutliveAuthor ==
  /\ \A s \in JoinedSockets :
       LET room == RoomOf(s)
           away == HandleJoinRoom(srv, s, [nodata |-> FALSE,
                                           username |-> Some(UserName(s)),
                                           room |-> Some("b")])
           gone == HandleDisconnect(srv, s)
       IN RosterOf(room) # {s} =>
            /\ room \in DOMAIN gone.st.rooms
            /\ gone.st.rooms[room].drawingState = srv.rooms[room].drawingState
            /\ s \notin RosterIds(gone.st.rooms[room].users)
            /\ room \in DOMAIN away.st.rooms
            /\ away.st.rooms[room].drawingState = srv.rooms[room].drawingState
            /\ s \notin RosterIds(away.st.rooms[room].users)
  /\ \A s \in JoinedSockets :
       LET room == RoomOf(s)
           d == srv.rooms[room].drawingState
           u == HandleUndo(srv, s)
       IN (d.currentIndex >= 0 /\ d.operations[d.currentIndex + 1].status = "active") =>
            /\ u.ret = Some([d.operations[d.currentIndex + 1]
                               EXCEPT !.status = "undone"])
            /\ HandleRedo(u.st, s).st.rooms[room].drawingState = d
  /\ (lastEvent.name \in {"undo", "redo"} /\ lastEvent.ret # Null) =>
       lastEvent.ret[1].id \in
         IdSet(srv.rooms[lastEvent.room[1]].drawingState.operations)

\* A socket has just undone the stroke of an author that has disconnected.
C28_Witness ==
  /\ lastEvent.name = "undo"
  /\ lastEvent.ret # Null
  /\ ~srv.conn[lastEvent.ret[1].userId].open
  /\ lastEvent.ret[1].userId \notin RosterOf(lastEvent.room[1])
  /\ srv.conn[lastEvent.by].open

\* The operation ids a room's ledger holds, pending or in the array.
HeldBy(room) ==
  (DOMAIN srv.rooms[room].drawingState.activeOperations) \cup
  IdSet(srv.rooms[room].drawingState.operations)

\* A handler run r of an event other than join-room, of a socket whose
\* currentRoom is cur, leaves every other room as it is and registers none.
OthersUntouched(cur, r) ==
  LET own == IF Truthy(cur) THEN {cur[1]} ELSE {}
  IN /\ (DOMAIN r.st.rooms) \ own = (DOMAIN srv.rooms) \ own
     /\ \A x \in (DOMAIN srv.rooms) \ own : r.st.rooms[x] = srv.rooms[x]

\* A join-room run r of socket s whose currentRoom was cur: outside the room
\* joined, the room left has lost s from its roster, or is deleted if s was
\* alone in it, and nothing else is changed.
JoinFrame(s, cur, r) ==
  LET room == r.st.conn[s].currentRoom[1]
  IN \A x \in ((DOMAIN srv.rooms) \cup (DOMAIN r.st.rooms)) \ {room} :
       /\ x \in DOMAIN srv.rooms
       /\ IF Truthy(cur) /\ x = cur[1]
          THEN IF RosterOf(x) = {s}
               THEN x \notin DOMAIN r.st.rooms
               ELSE /\ x \in DOMAIN r.st.rooms
                    /\ r.st.rooms[x] =
                         [srv.rooms[x] EXCEPT !.users = RosterDelete(@, s)]
          ELSE /\ x \in DOMAIN r.st.rooms
               /\ r.st.rooms[x] = srv.rooms[x]

\* C25: an event of a socket changes no ledger and no colorIndex of a room
\* other than the socket's own; a join-room changes, outside the room joined,
\* only the roster of the room left; and a draw-move or draw-end naming an id
\* that the ledger of another room holds changes no room.
C25_RoomsAreIndependent ==
  \A s \in Users :
    srv.conn[s].open =>
      LET cur == srv.conn[s].currentRoom
      IN /\ \A data \in DrawStartPayloads, t \in ClockValues :
              OthersUntouched(cur, HandleDrawStart(srv, s, data, t))
         /\ \A data \in DrawMovePayloads :
              OthersUntouched(cur, HandleDrawMove(srv, s, data))
         /\ \A data \in DrawEndPayloads :
              OthersUntouched(cur, HandleDrawEnd(srv, s, data))
         /\ OthersUntouched(cur, HandleUndo(srv, s))
         /\ OthersUntouched(cur, HandleRedo(srv, s))
         /\ OthersUntouched(cur, HandleClearCanvas(srv, s))
         /\ OthersUntouched(cur, HandleDisconnect(srv, s))
         /\ \A data \in JoinPayloads(s) :
              ~data.nodata => JoinFrame(s, cur, HandleJoinRoom(srv, s, data))
         /\ \A id \in Ids, pts \in PointsInputs :
              ( /\ Truthy(cur)
                /\ \E x \in (DOMAIN srv.rooms) \ {cur[1]} : id \in HeldBy(x) ) =>
                /\ HandleDrawMove(srv, s, [nodata |-> FALSE, operationId |-> id,
                                           points |-> pts]).st.rooms = srv.rooms
                /\ HandleDrawEnd(srv, s, [nodata |-> FALSE,
                                          operationId |-> id]).st.rooms = srv.rooms

\* C29: when the transport has connected again after joinRoom was called,
\* the new socket has joined the room the manager holds as currentRoom under
\* the name it holds as currentUsername, and room-state with
\* getActiveOperations() of that room was emitted to it.
C29_ReconnectRejoins ==
  (lastEvent.name = "connect" /\ page.currentRoom # Null) =>
    LET s == lastEvent.by
    IN /\ srv.conn[s].currentRoom = page.currentRoom
       /\ srv.conn[s].currentUser # Null
       /\ srv.conn[s].currentUser[1].username = page.currentUsername[1]
       /\ page.currentRoom[1] \in DOMAIN srv.rooms
       /\ s \in RosterOf(page.currentRoom[1])
       /\ Len(sent) = 2
       /\ sent[1].event = "room-state"
       /\ sent[1].to = {s}
       /\ sent[1].payload.operations =
            getActiveOperations(srv.rooms[page.currentRoom[1]].drawingState)

\* C31: while startOperation has built no id twice, no id is both in the
\* pending map and in the array, no id occurs twice in the array, every
\* pending operation is 'in-progress' and every entry of the array is 'active'
\* or 'undone'.
C31_PendingAndHistoryDisjoint ==
  NoDup(issued) =>
    /\ (DOMAIN ds.activeOperations) \cap IdSet(ds.operations) = {}
    /\ NoDup(IdsOf(ds.operations))
    /\ \A id \in DOMAIN ds.activeOperations :
         /\ ds.activeOperations[id].status = "in-progress"
         /\ ds.activeOperations[id].id = id
    /\ \A i \in 1..Len(ds.operations) :
         ds.operations[i].status \in {"active", "undone"}

\* Every id the clock can give has been issued: one operation is pending, and
\* the array holds an active and an undone entry.
C31_Witness ==
  /\ Len(issued) = Cardinality(Ids)
  /\ DOMAIN ds.activeOperations # {}
  /\ \E i, j \in 1..Len(ds.operations) :
       /\ ds.operations[i].status = "active"
       /\ ds.operations[j].status = "undone"

\* What an undo or a redo leaves alone, d being the ledger before the call
\* and e the ledger after it: the pending map, the length of the array, and
\* every field but the status of every entry, each entry staying at its index;
\* at most one entry has another status.
UndoRedoFrame(d, e) ==
  /\ e.activeOperations = d.activeOperations
  /\ Len(e.operations) = Len(d.operations)
  /\ \A i \in 1..Len(d.operations) :
       [e.operations[i] EXCEPT !.status = "-"] =
         [d.operations[i] EXCEPT !.status = "-"]
  /\ Cardinality({i \in 1..Len(d.operations) :
                    e.operations[i].status # d.operations[i].status}) <= 1

\* C32: a call of undo or redo changes neither the length of the array, nor
\* the order of its entries, nor the points of any operation, nor the pending
\* map; it changes at most the status of one entry and currentIndex.
C32_UndoRedoFrame ==
  [][lastCall'.op \in {"undo", "redo"} => UndoRedoFrame(ds, ds')]_vars

\* An undo has just marked the first of two entries, the second one being
\* undone already, while an operation is pending.
C32_Witness ==
  /\ lastCall.op = "undo"
  /\ lastCall.ret # Null
  /\ Len(ds.operations) = 2
  /\ ds.currentIndex = -1
  /\ ds.operations[1].id = lastCall.ret[1].id
  /\ ds.operations[2].status = "undone"
  /\ DOMAIN ds.activeOperations # {}

\* C33: the scans of undo and redo stop at the first entry they look at. With
\* currentIndex >= 0 the entry at currentIndex is active, so undo marks that
\* entry and moves currentIndex down by one; with currentIndex below the last
\* index the entry at currentIndex + 1 is undone, so redo returns that entry,
\* makes it active and moves currentIndex up by one: it never returns null
\* while an undone tail exists.
C33_ScansStopAtFirstEntry ==
  /\ ds.currentIndex >= 0 =>
       /\ ds.operations[ds.currentIndex + 1].status = "active"
       /\ undo(ds).ds.currentIndex = ds.currentIndex - 1
       /\ undo(ds).ds.operations =
            [ds.operations EXCEPT ![ds.currentIndex + 1].status = "undone"]
  /\ ds.currentIndex < Len(ds.operations) - 1 =>
       LET r == redo(ds)
           next == ds.operations[ds.currentIndex + 2]
       IN /\ next.status = "undone"
          /\ r.ret = Some([next EXCEPT !.status = "active"])
          /\ r.ds = [ds EXCEPT !.operations[ds.currentIndex + 2].status = "active",
                               !.currentIndex = ds.currentIndex + 1]
  /\ (lastCall.op = "redo" /\ lastCall.ret = Null) =>
       ds.currentIndex = Len(ds.operations) - 1

\* A redo has just re-activated the first of two undone entries: the second
\* one is still undone behind currentIndex.
C33_Witness ==
  /\ lastCall.op = "redo"
  /\ lastCall.ret # Null
  /\ Len(ds.operations) = 2
  /\ ds.currentIndex = 0
  /\ ds.operations[1].id = lastCall.ret[1].id
  /\ ds.operations[2].status = "undone"

\* p is a prefix of q.
Prefix(p, q) == Len(p) <= Len(q) /\ SubSeq(q, 1, Len(p)) = p

\* The operation object a is still the object b with the fields it was opened
\* with, and holds the points of b followed by zero or more points.
Grown(a, b) == Masked(a) = Masked(b) /\ Prefix(b.points, a.points)

\* What one step from ledger d to ledger e, the step's call being c, does to
\* the operation objects: a pending object was pending under the same key, or
\* is the object the step's startOperation made; an entry of the array is the
\* entry that was at its index, or is the last one and was pending.
ObjectsGrow(d, e, c) ==
  /\ \A id \in DOMAIN e.activeOperations :
       \/ /\ id \in DOMAIN d.activeOperations
          /\ Grown(e.activeOperations[id], d.activeOperations[id])
       \/ /\ c.op = "startOperation"
          /\ c.id = id
  /\ \A i \in 1..Len(e.operations) :
       \/ /\ i <= Len(d.operations)
          /\ Grown(e.operations[i], d.operations[i])
       \/ /\ i = Len(e.operations)
          /\ c.op = "endOperation"
          /\ c.id = e.operations[i].id
          /\ c.id \in DOMAIN d.activeOperations
          /\ Grown(e.operations[i], d.activeOperations[c.id])

\* C34: in every step of every sequence of ledger calls, each operation
\* object that is still stored keeps its id, author id, author name, kind,
\* color and width, and its points before the step are a prefix of its points
\* after it, from startOperation until the object is dropped.
C34_FieldsFixedPointsGrow == [][ObjectsGrow(ds, ds', lastCall')]_vars

\* Points have just been appended to a finalized entry of the array (a late
\* draw-move) while another operation is pending.
C34_Witness ==
  /\ lastCall.op = "addPoints"
  /\ ~lastCall.threw
  /\ \E i \in 1..Len(ds.operations) :
       /\ ds.operations[i].id = lastCall.id
       /\ Len(ds.operations[i].points) >= 2
  /\ lastCall.id \notin DOMAIN ds.activeOperations
  /\ DOMAIN ds.activeOperations # {}

\* The events the server forwards to the other members of the sender's room.
NarrowEvents ==
  {"remote-draw-start", "remote-draw-move", "remote-draw-end", "remote-cursor"}

\* The connected sockets other than s whose currentRoom is the currentRoom of s.
Peers(s) ==
  {x \in Users \ {s} :
     srv.conn[x].open /\ srv.conn[x].currentRoom = srv.conn[s].currentRoom}

\* Every narrow event among the emits goes to peers of s only.
NarrowToPeers(s, msgs) ==
  \A k \in 1..Len(msgs) :
    msgs[k].event \in NarrowEvents => msgs[k].to \subseteq Peers(s)

\* C35: whatever a socket sends, remote-draw-start, remote-draw-move,
\* remote-draw-end and remote-cursor reach only the other sockets whose current
\* room is the sender's; of a draw-start the sender itself gets one message,
\* operation-started, with the id under which the operation has just been put
\* in the pending map of its room.
C35_NarrowEventsStayInRoom ==
  /\ \A s \in Users :
       /\ \A data \in DrawStartPayloads, t \in ClockValues :
            LET r == HandleDrawStart(srv, s, data, t)
                mine == For(s, r.sent)
            IN /\ NarrowToPeers(s, r.sent)
               /\ r.sent # <<>> =>
                    /\ Len(mine) = 1
                    /\ mine[1].event = "operation-started"
                    /\ DOMAIN mine[1].payload = {"operationId"}
                    /\ LET id == mine[1].payload.operationId
                           pending == r.st.rooms[RoomOf(s)].drawingState.activeOperations
                       IN /\ id \in DOMAIN pending
                          /\ pending[id].id = id
                          /\ pending[id].userId = s
                          /\ pending[id].points = <<data.xy>>
       /\ \A data \in DrawMovePayloads :
            NarrowToPeers(s, HandleDrawMove(srv, s, data).sent)
       /\ \A data \in DrawEndPayloads :
            NarrowToPeers(s, HandleDrawEnd(srv, s, data).sent)
       /\ \A data \in CursorPayloads :
            NarrowToPeers(s, HandleCursorMove(srv, s, data).sent)
  /\ lastEvent.name \in {"draw-start", "draw-move", "draw-end", "cursor-move"} =>
       \A k \in 1..Len(sent) :
         sent[k].event \in NarrowEvents =>
           /\ lastEvent.by \notin sent[k].to
           /\ sent[k].to \subseteq JoinedSockets

\* A draw-move has just been forwarded to the other member of the room, for an
\* operation that is pending there.
C35_Witness ==
  /\ lastEvent.name = "draw-move"
  /\ Len(sent) = 1
  /\ sent[1].event = "remote-draw-move"
  /\ sent[1].to = Users \ {lastEvent.by}
  /\ sent[1].payload.operationId \in
       DOMAIN srv.rooms[RoomOf(lastEvent.by)].drawingState.activeOperations

\* The ids the server gives the strokes of the page.
CanvasIds == {OpId(CanvasSocket, k) : k \in 1..MaxStrokes}

\* C36: an operation the page has opened does not stay in the pending map:
\* when the stroke is ended before operation-started arrives, the buffered
\* points and draw-end are sent once it arrives, so the operation is moved
\* into the array.
C36_EveryStrokeIsFinalized ==
  \A id \in CanvasIds :
    (id \in DOMAIN ds.activeOperations) ~> (id \notin DOMAIN ds.activeOperations)

\* C37: every draw-move the page emits under an id carries points of the
\* stroke whose draw-start the server answered with that id, and every
\* draw-end emitted for an id is the end of that stroke. The server answers
\* the k-th draw-start with the id of clock reading k and stroke k is drawn at
\* x = k.
C37_IdsNameTheirOwnStroke ==
  \A k \in 1..Len(wire.up) :
    LET m == wire.up[k]
    IN /\ m.event = "draw-move" =>
            \A j \in 1..Len(m.points) : m.points[j][1] = m.operationId[3]
       /\ m.event = "draw-end" => m.of = m.operationId[3]

\* user-left for socket s is among the emits, sent to the sockets of rest.
AnnouncedLeft(msgs, s, rest) ==
  \E k \in 1..Len(msgs) :
    /\ msgs[k].event = "user-left"
    /\ msgs[k].payload.userId = s
    /\ rest \subseteq msgs[k].to

\* C38: whenever a socket is taken out of the roster of a room in which other
\* sockets remain, by its disconnect or by its join-room to another room, the
\* remaining sockets are sent user-left for it.
C38_LeaversAreAnnounced ==
  \A s \in JoinedSockets :
    LET room == RoomOf(s)
        rest == RosterOf(room) \ {s}
    IN rest # {} =>
         /\ AnnouncedLeft(HandleDisconnect(srv, s).sent, s, rest)
         /\ \A data \in JoinPayloads(s) :
              LET r == HandleJoinRoom(srv, s, data)
              IN (~r.threw /\ s \notin RosterIds(r.st.rooms[room].users)) =>
                   AnnouncedLeft(r.sent, s, rest)

\* C39: a draw-move or a draw-end that names a pending operation of the
\* sender's room and comes from a socket other than the one whose draw-start
\* opened the operation leaves the room's ledger as it was.
C39_OnlyTheOpenerDraws ==
  \A s \in JoinedSockets :
    LET pending == srv.rooms[RoomOf(s)].drawingState.activeOperations
    IN \A id \in DOMAIN pending :
         pending[id].userId # s =>
           /\ \A data \in DrawMovePayloads :
                (~data.nodata /\ data.operationId = id) =>
                  HandleDrawMove(srv, s, data).st.rooms = srv.rooms
           /\ \A data \in DrawEndPayloads :
                (~data.nodata /\ data.operationId = id) =>
                  HandleDrawEnd(srv, s, data).st.rooms = srv.rooms

\* C40: when a socket that has joined room R sends join-room for R again, it
\* is in R's roster exactly once afterwards and R's ledger (array,
\* currentIndex, pending map) is what it was, whether or not other sockets
\* are in R.
C40_RejoinKeepsLedger ==
  \A s \in JoinedSockets :
    \A data \in JoinPayloads(s) :
      (~data.nodata /\ data.room = Some(RoomOf(s))) =>
        LET r == HandleJoinRoom(srv, s, data)
            after == r.st.rooms[RoomOf(s)]
        IN /\ Cardinality({i \in 1..Len(after.users) : after.users[i].id = s}) = 1
           /\ after.drawingState = srv.rooms[RoomOf(s)].drawingState

====
